---- MODULE Spec2Model ----
(***************************************************************************)
(* A model of the BigFrames expression tree (bigframes/core/nodes.py) and  *)
(* of the join compiler (bigframes/core/compile/single_column.py) and the   *)
(* default ordering (bigframes/core/compile/default_ordering.py).          *)
(*                                                                         *)
(* A BigFrameNode is a record: `kind` is its class, the other components   *)
(* are its declared dataclass fields.  A raised exception is a record of   *)
(* kind "Error".  Methods and properties are operators named after them.   *)
(***************************************************************************)
EXTENDS Integers, Sequences, FiniteSets, TLC

VARIABLES
    tree,   \* the expression tree built so far (NoNode before the first read)
    res,    \* what the last operation on the tree returned or raised
    jin,    \* helpers: the arguments of the call (the two compiled inputs, the
            \* conditions and the kind of a join; the table to order); the threads;
            \* the heap and the root before a rewrite
    jout    \* helpers: the value returned; the rewrite and the heap it left

vars == <<tree, res, jin, jout>>

(***************************************************************************)
(* Bounds of the model.                                                    *)
(***************************************************************************)
\* Height of the trees that are built (a leaf has height 1).
MaxDepth == 2
\* Number of buckets of the model's hash function.
HashBuckets == 7

(***************************************************************************)
(* Helpers on sequences.                                                   *)
(***************************************************************************)
Range(s) == {s[i] : i \in 1..Len(s)}

RECURSIVE SelectSeqBy(_, _)
\* Python: tuple(x for x in s if Keep(x))
SelectSeqBy(s, keep) ==
    IF s = <<>> THEN <<>>
    ELSE IF Head(s) \in keep THEN <<Head(s)>> \o SelectSeqBy(Tail(s), keep)
    ELSE SelectSeqBy(Tail(s), keep)

Max2(a, b) == IF a >= b THEN a ELSE b

(***************************************************************************)
(* Column ids, dtypes, sessions.                                           *)
(***************************************************************************)
\* ColumnId is a frozen dataclass holding a name.
ColumnId(name) == [name |-> name]

\* An id is a ColumnId object, a schema name is a str: the two never compare equal.
ColumnId_eq_str(id, s) == FALSE

INT_DTYPE == "Int64"
ARRAY_INT_DTYPE == "list<int64>"
BOOL_DTYPE == "boolean"
STRING_DTYPE == "string"

None == "None"
Sessions == {"S1", "S2"}

Field(id, dtype) == [id |-> id, dtype |-> dtype]
ScanItem(id, dtype, source_id) == [id |-> id, dtype |-> dtype, source_id |-> source_id]
ScanList(items) == [items |-> items]

Raise(exc) == [kind |-> "Error", exc |-> exc]
IsError(n) == n.kind = "Error"

NoNode == [kind |-> "NoNode"]

LeafKinds == {"ReadLocalNode", "ReadTableNode", "CachedTableNode"}
UnaryKinds == {"PromoteOffsetsNode", "FilterNode", "OrderByNode", "ReversedNode",
               "SelectionNode", "ProjectionNode", "RowCountNode", "AggregateNode",
               "WindowOpNode", "ReprojectOpNode", "RandomSampleNode", "ExplodeNode"}

(***************************************************************************)
(* Expressions (bigframes.core.expression): an operator applied to column  *)
(* references.  Only output_type, column_references, is_identity and, for  *)
(* a DerefOp, id are used by the nodes.                                    *)
(***************************************************************************)
DerefOp(id) == [op |-> "deref", args |-> <<id>>]
OpExpression(op, args) == [op |-> op, args |-> args]
Aggregation(op, arg) == [op |-> op, args |-> <<arg>>]
OrderingExpression(id, ascending) == [scalar_expression |-> DerefOp(id), ascending |-> ascending]

DerefId(e) == e.args[1]
column_references(e) == Range(e.args)
referenced_columns(o) == column_references(o.scalar_expression)
is_identity(e) == e.op = "deref"

\* output_type(input_types): a reference that input_types lacks, or an operand
\* of the wrong type, raises.
output_type(e, input_types) ==
    IF \E i \in 1..Len(e.args) : e.args[i] \notin DOMAIN input_types THEN "TypeError"
    ELSE CASE e.op = "deref" -> input_types[e.args[1]]
           [] e.op = "isnull" -> BOOL_DTYPE
           [] e.op = "add1" ->
                IF input_types[e.args[1]] = INT_DTYPE THEN INT_DTYPE ELSE "TypeError"
           [] e.op = "count" -> INT_DTYPE
           [] e.op = "sum" ->
                IF input_types[e.args[1]] = INT_DTYPE THEN INT_DTYPE ELSE "TypeError"
           [] OTHER -> "TypeError"

\* UnaryWindowOp.output_type(input_type)
window_op_output_type(op, input_type) ==
    IF op = "rank" THEN INT_DTYPE ELSE input_type

\* arrow_dtype_to_bigframes_dtype(dtype.pyarrow_dtype.value_type)
array_value_type(dtype) ==
    IF dtype = ARRAY_INT_DTYPE THEN INT_DTYPE ELSE "AttributeError"

(***************************************************************************)
(* Node structure: child_nodes, fields, ids, schema, _dtype_lookup.        *)
(***************************************************************************)
\* BigFrameNode.child_nodes and its overrides
child_nodes(n) ==
    CASE n.kind \in UnaryKinds -> <<n.child>>
      [] n.kind = "JoinNode" -> <<n.left_child, n.right_child>>
      [] n.kind = "ConcatNode" -> n.children
      [] n.kind = "FromRangeNode" -> <<n.start, n.end>>
      [] OTHER -> <<>>

\* Field names built by ConcatNode.fields: f"column_{i}"
ColumnNames == <<"column_0", "column_1", "column_2", "column_3">>
column_i(i) == ColumnId(ColumnNames[i + 1])

\* {field.id: field.dtype for field in fields}: a later field replaces an earlier one
lookup_of(f) ==
    [id \in {f[i].id : i \in 1..Len(f)} |->
        f[CHOOSE i \in 1..Len(f) : f[i].id = id /\ \A j \in (i + 1)..Len(f) : f[j].id # id].dtype]

\* self._dtype_lookup[id]; a missing id is a KeyError
type_in(f, id) == IF id \in DOMAIN lookup_of(f) THEN lookup_of(f)[id] ELSE "KeyError"

ReadLocalNode_fields(self) ==
    [i \in 1..Len(self.scan_list.items) |->
        Field(self.scan_list.items[i].id, self.scan_list.items[i].dtype)]

ReadTableNode_fields(self) ==
    [i \in 1..Len(self.scan_list.items) |->
        Field(self.scan_list.items[i].id, self.scan_list.items[i].dtype)]

PromoteOffsetsNode_fields(self, child_fields) ==
    child_fields \o <<Field(self.col_id, INT_DTYPE)>>

SelectionNode_fields(self, child_fields) ==
    [i \in 1..Len(self.input_output_pairs) |->
        Field(self.input_output_pairs[i][2],
              type_in(child_fields, DerefId(self.input_output_pairs[i][1])))]

\* A faulty ProjectionNode.fields in which an assignment to the id of a child
\* field takes the place of that field
ProjectionNode_fields_replacing(self, child_fields) ==
    LET new_fields == [i \in 1..Len(self.assignments) |->
                          Field(self.assignments[i][2],
                                output_type(self.assignments[i][1], lookup_of(child_fields)))]
        replaced(f) == \E i \in 1..Len(new_fields) : new_fields[i].id = f.id
    IN  SelectSeq(child_fields, LAMBDA f : ~replaced(f)) \o new_fields

ProjectionNode_fields(self, child_fields) ==
    child_fields \o
    [i \in 1..Len(self.assignments) |->
        Field(self.assignments[i][2],
              output_type(self.assignments[i][1], lookup_of(child_fields)))]

RowCountNode_fields(self) == <<Field(ColumnId("count"), INT_DTYPE)>>

AggregateNode_fields(self, child_fields) ==
    [i \in 1..Len(self.by_column_ids) |->
        Field(DerefId(self.by_column_ids[i]),
              type_in(child_fields, DerefId(self.by_column_ids[i])))]
    \o
    [i \in 1..Len(self.aggregations) |->
        Field(self.aggregations[i][2],
              output_type(self.aggregations[i][1], lookup_of(child_fields)))]

WindowOpNode_fields(self, child_fields) ==
    child_fields \o
    <<Field(self.output_name,
            window_op_output_type(self.op, type_in(child_fields, DerefId(self.column_name))))>>

ExplodeNode_fields(self, child_fields) ==
    [i \in 1..Len(child_fields) |->
        IF child_fields[i].id \in {DerefId(self.column_ids[j]) : j \in 1..Len(self.column_ids)}
        THEN Field(child_fields[i].id,
                   array_value_type(type_in(child_fields, child_fields[i].id)))
        ELSE child_fields[i]]

\* Faulty JoinNode.fields: the right child's fields before the left child's
JoinNode_fields_right_first(left_fields, right_fields) == right_fields \o left_fields

JoinNode_fields(left_fields, right_fields) == left_fields \o right_fields

\* A faulty ConcatNode.fields that keeps the ids of the first child
ConcatNode_fields_keep_ids(first_child_fields) == first_child_fields

ConcatNode_fields(first_child_fields) ==
    [i \in 1..Len(first_child_fields) |-> Field(column_i(i - 1), first_child_fields[i].dtype)]

FromRangeNode_fields(start_fields) == <<Field(ColumnId("labels"), start_fields[1].dtype)>>

RECURSIVE fields(_)
\* BigFrameNode.fields: the output schema of a node
fields(n) ==
    CASE n.kind = "ReadLocalNode" -> ReadLocalNode_fields(n)
      [] n.kind \in {"ReadTableNode", "CachedTableNode"} -> ReadTableNode_fields(n)
      [] n.kind = "PromoteOffsetsNode" -> PromoteOffsetsNode_fields(n, fields(n.child))
      [] n.kind = "SelectionNode" -> SelectionNode_fields(n, fields(n.child))
      [] n.kind = "ProjectionNode" -> ProjectionNode_fields(n, fields(n.child))
      [] n.kind = "RowCountNode" -> RowCountNode_fields(n)
      [] n.kind = "AggregateNode" -> AggregateNode_fields(n, fields(n.child))
      [] n.kind = "WindowOpNode" -> WindowOpNode_fields(n, fields(n.child))
      [] n.kind = "ExplodeNode" -> ExplodeNode_fields(n, fields(n.child))
      [] n.kind = "JoinNode" -> JoinNode_fields(fields(n.left_child), fields(n.right_child))
      [] n.kind = "ConcatNode" -> ConcatNode_fields(fields(n.children[1]))
      [] n.kind = "FromRangeNode" -> FromRangeNode_fields(fields(n.start))
      [] n.kind \in UnaryKinds -> fields(n.child)
      [] OTHER -> <<>>

\* BigFrameNode.ids, as a set
ids(n) == LET f == fields(n) IN {f[i].id : i \in 1..Len(f)}
\* BigFrameNode.ids, in order
id_seq(n) == LET f == fields(n) IN [i \in 1..Len(f) |-> f[i].id]

dtype_lookup(n) == lookup_of(fields(n))
get_type(n, id) == type_in(fields(n), id)

\* BigFrameNode.schema: ArraySchema of SchemaItem(id.name, dtype)
schema_names(n) == LET f == fields(n) IN [i \in 1..Len(f) |-> f[i].id.name]
schema_dtypes(n) == LET f == fields(n) IN [i \in 1..Len(f) |-> f[i].dtype]

\* Python's `x in names` for a ColumnId x and a tuple of str
id_in_names(id, names) == \E i \in 1..Len(names) : ColumnId_eq_str(id, names[i])

RECURSIVE depth(_)
depth(n) ==
    IF n.kind = "NoNode" THEN 0
    ELSE LET cs == child_nodes(n)
             RECURSIVE mx(_)
             mx(i) == IF i > Len(cs) THEN 0 ELSE Max2(depth(cs[i]), mx(i + 1))
         IN 1 + mx(1)

(***************************************************************************)
(* Constructors.  A dataclass constructor stores the declared fields and   *)
(* runs __post_init__; what it raises is returned as an Error record.      *)
(***************************************************************************)
ReadLocalNode(feather_bytes, data_schema, n_rows, scan_list, session) ==
    [kind |-> "ReadLocalNode", feather_bytes |-> feather_bytes, data_schema |-> data_schema,
     n_rows |-> n_rows, scan_list |-> scan_list, session |-> session]

\* A faulty ReadTableNode.__post_init__ that checks the first scan item only
ReadTableNode_post_init_first_only(source, scan_list) ==
    LET physical_names == Range(source.table.physical_schema)
    IN IF Len(scan_list.items) > 0 /\ scan_list.items[1].source_id \notin physical_names
       THEN "ValueError"
       ELSE None

\* ReadTableNode.__post_init__ (inherited by CachedTableNode): None, or the exception
ReadTableNode_post_init(source, scan_list) ==
    LET physical_names == Range(source.table.physical_schema)
    IN IF ~({scan_list.items[i].source_id : i \in 1..Len(scan_list.items)} \subseteq physical_names)
       THEN "ValueError"
       ELSE None

ReadTableNode(source, scan_list, table_session) ==
    IF ReadTableNode_post_init(source, scan_list) # None
    THEN Raise(ReadTableNode_post_init(source, scan_list))
    ELSE [kind |-> "ReadTableNode", source |-> source, scan_list |-> scan_list,
          table_session |-> table_session]

CachedTableNode(source, scan_list, table_session, original_node) ==
    IF ReadTableNode_post_init(source, scan_list) # None
    THEN Raise(ReadTableNode_post_init(source, scan_list))
    ELSE [kind |-> "CachedTableNode", source |-> source, scan_list |-> scan_list,
          table_session |-> table_session, original_node |-> original_node]

\* A faulty JoinNode.__post_init__ without the assertion
JoinNode_post_init_unchecked(left_child, right_child) == None

\* JoinNode.__post_init__: assert not (set(left.ids) & set(right.ids))
JoinNode_post_init(left_child, right_child) ==
    IF (ids(left_child) \cap ids(right_child)) # {} THEN "AssertionError" ELSE None

JoinNode(left_child, right_child, conditions, type) ==
    IF JoinNode_post_init(left_child, right_child) # None
    THEN Raise(JoinNode_post_init(left_child, right_child))
    ELSE [kind |-> "JoinNode", left_child |-> left_child, right_child |-> right_child,
          conditions |-> conditions, type |-> type]

\* A faulty ConcatNode.__post_init__ that compares column names instead of dtypes
ConcatNode_post_init_by_names(children) ==
    IF Len(children) = 0 THEN "ValueError"
    ELSE IF Cardinality({schema_names(children[i]) : i \in 1..Len(children)}) # 1
         THEN "ValueError"
         ELSE None

\* ConcatNode.__post_init__
ConcatNode_post_init(children) ==
    IF Len(children) = 0 THEN "ValueError"
    ELSE IF Cardinality({schema_dtypes(children[i]) : i \in 1..Len(children)}) # 1
         THEN "ValueError"
         ELSE None

ConcatNode(children) ==
    IF ConcatNode_post_init(children) # None
    THEN Raise(ConcatNode_post_init(children))
    ELSE [kind |-> "ConcatNode", children |-> children]

FromRangeNode(start, end, step) ==
    [kind |-> "FromRangeNode", start |-> start, end |-> end, step |-> step]

\* ProjectionNode.__post_init__
ProjectionNode_post_init(child, assignments) ==
    IF \E i \in 1..Len(assignments) :
          output_type(assignments[i][1], dtype_lookup(child)) = "TypeError"
    THEN "TypeError"
    ELSE IF ~(\A i \in 1..Len(assignments) :
                ~id_in_names(assignments[i][2], schema_names(child)))
         THEN "AssertionError"
         ELSE None

ProjectionNode(child, assignments) ==
    IF ProjectionNode_post_init(child, assignments) # None
    THEN Raise(ProjectionNode_post_init(child, assignments))
    ELSE [kind |-> "ProjectionNode", child |-> child, assignments |-> assignments]

PromoteOffsetsNode(child, col_id) ==
    [kind |-> "PromoteOffsetsNode", child |-> child, col_id |-> col_id]
FilterNode(child, predicate) ==
    [kind |-> "FilterNode", child |-> child, predicate |-> predicate]
OrderByNode(child, by) == [kind |-> "OrderByNode", child |-> child, by |-> by]
ReversedNode(child) == [kind |-> "ReversedNode", child |-> child, reversed |-> TRUE]
SelectionNode(child, input_output_pairs) ==
    [kind |-> "SelectionNode", child |-> child, input_output_pairs |-> input_output_pairs]
RowCountNode(child) == [kind |-> "RowCountNode", child |-> child]
AggregateNode(child, aggregations, by_column_ids, dropna) ==
    [kind |-> "AggregateNode", child |-> child, aggregations |-> aggregations,
     by_column_ids |-> by_column_ids, dropna |-> dropna]
WindowOpNode(child, column_name, op, window_spec, output_name, never_skip_nulls, skip_reproject_unsafe) ==
    [kind |-> "WindowOpNode", child |-> child, column_name |-> column_name, op |-> op,
     window_spec |-> window_spec, output_name |-> output_name,
     never_skip_nulls |-> never_skip_nulls, skip_reproject_unsafe |-> skip_reproject_unsafe]
ReprojectOpNode(child) == [kind |-> "ReprojectOpNode", child |-> child]
RandomSampleNode(child, fraction) ==
    [kind |-> "RandomSampleNode", child |-> child, fraction |-> fraction]
ExplodeNode(child, column_ids) ==
    [kind |-> "ExplodeNode", child |-> child, column_ids |-> column_ids]

\* dataclasses.replace(self, child=new_child): the constructor runs again
replace_child(self, new_child) ==
    IF self.kind = "ProjectionNode" THEN ProjectionNode(new_child, self.assignments)
    ELSE [self EXCEPT !.child = new_child]

\* transform_children(t), with t given as the function [child |-> t(child)];
\* an exception raised by t or by the constructor propagates
transform_children(self, t) ==
    LET cs == child_nodes(self)
        new == [i \in 1..Len(cs) |-> t[cs[i]]]
    IN IF \E i \in 1..Len(cs) : IsError(new[i])
       THEN new[CHOOSE i \in 1..Len(cs) : IsError(new[i]) /\ \A j \in 1..(i - 1) : ~IsError(new[j])]
       ELSE CASE self.kind \in UnaryKinds -> replace_child(self, new[1])
              [] self.kind = "JoinNode" -> JoinNode(new[1], new[2], self.conditions, self.type)
              [] self.kind = "ConcatNode" -> ConcatNode(new)
              [] self.kind = "FromRangeNode" -> FromRangeNode(new[1], new[2], self.step)
              [] OTHER -> self

(***************************************************************************)
(* Column pruning: prune(used_cols) of every class.                        *)
(***************************************************************************)
RECURSIVE prune(_, _)

\* BigFrameNode.prune, inherited by ReversedNode, RowCountNode, ReprojectOpNode
\* and RandomSampleNode
BigFrameNode_prune(self, used_cols) ==
    transform_children(self, [c \in Range(child_nodes(self)) |-> prune(c, used_cols)])

\* tuple(item for item in self.scan_list.items if item.id in used_cols)
pruned_scan_items(items, used_cols) ==
    SelectSeqBy(items, {it \in Range(items) : it.id \in used_cols})

ReadLocalNode_prune(self, used_cols) ==
    LET new_scan_list == ScanList(pruned_scan_items(self.scan_list.items, used_cols))
    IN ReadLocalNode(self.feather_bytes, self.data_schema, self.n_rows, new_scan_list,
                     self.session)

ReadTableNode_prune(self, used_cols) ==
    LET new_scan_list == ScanList(pruned_scan_items(self.scan_list.items, used_cols))
    IN ReadTableNode(self.source, new_scan_list, self.table_session)

CachedTableNode_prune(self, used_cols) ==
    LET new_scan_list == ScanList(pruned_scan_items(self.scan_list.items, used_cols))
    IN CachedTableNode(self.source, new_scan_list, self.table_session, self.original_node)

\* A faulty JoinNode.prune that prunes the children against used_cols alone
JoinNode_prune_used_only(self, used_cols) ==
    transform_children(self, [c \in Range(child_nodes(self)) |-> prune(c, used_cols)])

JoinNode_prune(self, used_cols) ==
    LET new_used == used_cols \cup
            UNION {{DerefId(self.conditions[i][1]), DerefId(self.conditions[i][2])} :
                   i \in 1..Len(self.conditions)}
    IN transform_children(self, [c \in Range(child_nodes(self)) |-> prune(c, new_used)])

\* A faulty ConcatNode.prune that prunes the children like the default does
ConcatNode_prune_children(self, used_cols) ==
    transform_children(self, [c \in Range(child_nodes(self)) |-> prune(c, used_cols)])

ConcatNode_prune(self, used_cols) == self

FromRangeNode_prune(self, used_cols) == self

PromoteOffsetsNode_prune(self, used_cols) ==
    IF self.col_id \notin used_cols
    THEN prune(self.child, used_cols)
    ELSE LET new_used == used_cols \ {self.col_id}
         IN transform_children(self, [c \in {self.child} |-> prune(c, new_used)])

\* A faulty FilterNode.prune that forgets the columns of the predicate
FilterNode_prune_used_only(self, used_cols) ==
    LET pruned_child == prune(self.child, used_cols)
    IN IF IsError(pruned_child) THEN pruned_child
       ELSE FilterNode(pruned_child, self.predicate)

FilterNode_prune(self, used_cols) ==
    LET consumed_ids == used_cols \cup column_references(self.predicate)
        pruned_child == prune(self.child, consumed_ids)
    IN IF IsError(pruned_child) THEN pruned_child
       ELSE FilterNode(pruned_child, self.predicate)

OrderByNode_prune(self, used_cols) ==
    LET ordering_cols == UNION {referenced_columns(self.by[i]) : i \in 1..Len(self.by)}
        consumed_ids == used_cols \cup ordering_cols
        pruned_child == prune(self.child, consumed_ids)
    IN IF IsError(pruned_child) THEN pruned_child
       ELSE OrderByNode(pruned_child, self.by)

\* A faulty SelectionNode.prune that prunes its child against the output ids
\* instead of the ids the kept selections read
SelectionNode_prune_by_outputs(self, used_cols) ==
    LET pruned_selections ==
            SelectSeqBy(self.input_output_pairs,
                        {p \in Range(self.input_output_pairs) : p[2] \in used_cols})
        pruned_child == prune(self.child, used_cols)
    IN IF IsError(pruned_child) THEN pruned_child
       ELSE SelectionNode(pruned_child, pruned_selections)


SelectionNode_prune(self, used_cols) ==
    LET pruned_selections ==
            SelectSeqBy(self.input_output_pairs,
                        {p \in Range(self.input_output_pairs) : p[2] \in used_cols})
        consumed_ids == {DerefId(pruned_selections[i][1]) : i \in 1..Len(pruned_selections)}
        pruned_child == prune(self.child, consumed_ids)
    IN IF IsError(pruned_child) THEN pruned_child
       ELSE SelectionNode(pruned_child, pruned_selections)

ProjectionNode_prune(self, used_cols) ==
    LET pruned_assignments ==
            SelectSeqBy(self.assignments, {a \in Range(self.assignments) : a[2] \in used_cols})
    IN IF Len(pruned_assignments) = 0
       THEN prune(self.child, used_cols)
       ELSE LET consumed_ids == UNION {column_references(pruned_assignments[i][1]) :
                                       i \in 1..Len(pruned_assignments)}
                pruned_child == prune(self.child, used_cols \cup consumed_ids)
            IN IF IsError(pruned_child) THEN pruned_child
               ELSE ProjectionNode(pruned_child, pruned_assignments)

\* A faulty AggregateNode.prune that also asks the child for the used columns
AggregateNode_prune_forwarding(self, used_cols) ==
    LET by_ids == {DerefId(self.by_column_ids[i]) : i \in 1..Len(self.by_column_ids)}
        pruned_aggs ==
            SelectSeqBy(self.aggregations, {a \in Range(self.aggregations) : a[2] \in used_cols})
        agg_inputs == UNION {column_references(pruned_aggs[i][1]) : i \in 1..Len(pruned_aggs)}
        pruned_child == prune(self.child, by_ids \cup agg_inputs \cup used_cols)
    IN IF IsError(pruned_child) THEN pruned_child
       ELSE AggregateNode(pruned_child, pruned_aggs, self.by_column_ids, self.dropna)

AggregateNode_prune(self, used_cols) ==
    LET by_ids == {DerefId(self.by_column_ids[i]) : i \in 1..Len(self.by_column_ids)}
        pruned_aggs ==
            SelectSeqBy(self.aggregations, {a \in Range(self.aggregations) : a[2] \in used_cols})
        agg_inputs == UNION {column_references(pruned_aggs[i][1]) : i \in 1..Len(pruned_aggs)}
        consumed_ids == by_ids \cup agg_inputs
        pruned_child == prune(self.child, consumed_ids)
    IN IF IsError(pruned_child) THEN pruned_child
       ELSE AggregateNode(pruned_child, pruned_aggs, self.by_column_ids, self.dropna)

WindowOpNode_prune(self, used_cols) ==
    IF self.output_name \notin used_cols
    THEN self.child
    ELSE LET consumed_ids == (used_cols \ {self.output_name}) \cup {DerefId(self.column_name)}
         IN transform_children(self, [c \in {self.child} |-> prune(c, consumed_ids)])

ExplodeNode_prune(self, used_cols) ==
    transform_children(self,
        [c \in {self.child} |->
            prune(c, used_cols \cup {DerefId(self.column_ids[i]) : i \in 1..Len(self.column_ids)})])

\* n.prune(used_cols), by the class of n
prune(n, used_cols) ==
    CASE n.kind = "ReadLocalNode" -> ReadLocalNode_prune(n, used_cols)
      [] n.kind = "ReadTableNode" -> ReadTableNode_prune(n, used_cols)
      [] n.kind = "CachedTableNode" -> CachedTableNode_prune(n, used_cols)
      [] n.kind = "JoinNode" -> JoinNode_prune(n, used_cols)
      [] n.kind = "ConcatNode" -> ConcatNode_prune(n, used_cols)
      [] n.kind = "FromRangeNode" -> FromRangeNode_prune(n, used_cols)
      [] n.kind = "PromoteOffsetsNode" -> PromoteOffsetsNode_prune(n, used_cols)
      [] n.kind = "FilterNode" -> FilterNode_prune(n, used_cols)
      [] n.kind = "OrderByNode" -> OrderByNode_prune(n, used_cols)
      [] n.kind = "SelectionNode" -> SelectionNode_prune(n, used_cols)
      [] n.kind = "ProjectionNode" -> ProjectionNode_prune(n, used_cols)
      [] n.kind = "AggregateNode" -> AggregateNode_prune(n, used_cols)
      [] n.kind = "WindowOpNode" -> WindowOpNode_prune(n, used_cols)
      [] n.kind = "ExplodeNode" -> ExplodeNode_prune(n, used_cols)
      [] n.kind = "Error" -> n
      [] OTHER -> BigFrameNode_prune(n, used_cols)

(***************************************************************************)
(* Session resolution.                                                     *)
(***************************************************************************)
RECURSIVE session(_)

\* A faulty BigFrameNode.session that answers with the first session found
\* instead of raising on two
BigFrameNode_session_first(self) ==
    LET cs == child_nodes(self)
        child_sessions == [i \in 1..Len(cs) |-> session(cs[i])]
        sessions == SelectSeq(child_sessions, LAMBDA x : x # None)
    IN IF Len(sessions) >= 1 THEN sessions[1] ELSE None

\* BigFrameNode.session; a raised ValueError is the value "ValueError"
BigFrameNode_session(self) ==
    LET cs == child_nodes(self)
        child_sessions == [i \in 1..Len(cs) |-> session(cs[i])]
        sessions == SelectSeq(child_sessions, LAMBDA x : x # None)
        unique_sessions == Cardinality(Range(sessions))
    IN IF \E i \in 1..Len(cs) : child_sessions[i] = "ValueError" THEN "ValueError"
       ELSE IF unique_sessions > 1 THEN "ValueError"
       ELSE IF unique_sessions = 1 THEN sessions[1]
       ELSE None

\* ReadTableNode.session (and CachedTableNode)
ReadTableNode_session(self) == self.table_session

session(n) ==
    CASE n.kind \in {"ReadTableNode", "CachedTableNode"} -> ReadTableNode_session(n)
      [] n.kind = "ReadLocalNode" -> n.session
      [] OTHER -> BigFrameNode_session(n)

(***************************************************************************)
(* Structural equality and hashing: _as_tuple, _cached_hash, __hash__,     *)
(* __eq__.  Python's hash is modelled by a hash into HashBuckets buckets,  *)
(* computed from the values alone, under which distinct values may collide.*)
(***************************************************************************)
\* dataclasses.fields(self): the declared fields, base class first
declared_fields(kind) ==
    CASE kind = "ReadLocalNode" ->
            <<"feather_bytes", "data_schema", "n_rows", "scan_list", "session">>
      [] kind = "ReadTableNode" -> <<"source", "scan_list", "table_session">>
      [] kind = "CachedTableNode" ->
            <<"source", "scan_list", "table_session", "original_node">>
      [] kind = "JoinNode" -> <<"left_child", "right_child", "conditions", "type">>
      [] kind = "ConcatNode" -> <<"children">>
      [] kind = "FromRangeNode" -> <<"start", "end", "step">>
      [] kind = "PromoteOffsetsNode" -> <<"child", "col_id">>
      [] kind = "FilterNode" -> <<"child", "predicate">>
      [] kind = "OrderByNode" -> <<"child", "by">>
      [] kind = "ReversedNode" -> <<"child", "reversed">>
      [] kind = "SelectionNode" -> <<"child", "input_output_pairs">>
      [] kind = "ProjectionNode" -> <<"child", "assignments">>
      [] kind = "RowCountNode" -> <<"child">>
      [] kind = "AggregateNode" -> <<"child", "aggregations", "by_column_ids", "dropna">>
      [] kind = "WindowOpNode" ->
            <<"child", "column_name", "op", "window_spec", "output_name",
              "never_skip_nulls", "skip_reproject_unsafe">>
      [] kind = "ReprojectOpNode" -> <<"child">>
      [] kind = "RandomSampleNode" -> <<"child", "fraction">>
      [] kind = "ExplodeNode" -> <<"child", "column_ids">>
      [] OTHER -> <<>>

\* The declared fields whose value is a BigFrameNode
NodeFields == {"child", "left_child", "right_child", "start", "end", "original_node"}

\* A faulty _as_tuple that leaves out the first declared field
as_tuple_without_first(self) ==
    SubSeq(declared_fields(self.kind), 2, Len(declared_fields(self.kind)))

\* A faulty _as_tuple that leaves out original_node
as_tuple_without_original(self) ==
    SelectSeq(declared_fields(self.kind), LAMBDA f : f # "original_node")

\* BigFrameNode._as_tuple: the names of the values it collects, in order
as_tuple(self) == declared_fields(self.kind)

StrTable == <<"None", "S1", "S2", "a", "b", "d", "v", "w", "x", "y", "q", "count", "labels",
              "column_0", "column_1", "Int64", "list<int64>", "boolean", "string",
              "deref", "isnull", "add1", "sum", "rank", "inner", "outer", "left",
              "right", "cross", "f1", "f2", "t1", "t2", "0.5", "0.25">>

\* hash() of the strings of StrTable
StrHash ==
    [s \in Range(StrTable) |-> (CHOOSE i \in 1..Len(StrTable) : StrTable[i] = s) % HashBuckets]

hash_str(s) == IF s \in DOMAIN StrHash THEN StrHash[s] ELSE 0

hash_bool(b) == IF b THEN 1 ELSE 0

RECURSIVE hash_items(_, _)
\* hash of the first n items of a tuple, from their hashes
hash_items(hs, n) ==
    IF n = 0 THEN 1 ELSE (3 * hash_items(hs, n - 1) + hs[n] + 1) % HashBuckets

\* hash of a tuple, from the hashes of its items
hash_tuple(hs) == hash_items(hs, Len(hs))

hash_id(id) == hash_tuple(<<hash_str(id.name)>>)
hash_expr(e) == hash_tuple(<<hash_str(e.op)>> \o [i \in 1..Len(e.args) |-> hash_id(e.args[i])])
hash_exprs(es) == hash_tuple([i \in 1..Len(es) |-> hash_expr(es[i])])
hash_strs(ss) == hash_tuple([i \in 1..Len(ss) |-> hash_str(ss[i])])

\* hash of the value of a declared field that holds no node
attr_hash(name, v) ==
    CASE name \in {"feather_bytes", "session", "table_session", "op", "fraction", "type"} ->
            hash_str(v)
      [] name \in {"n_rows", "step"} -> v % HashBuckets
      [] name \in {"reversed", "dropna", "never_skip_nulls", "skip_reproject_unsafe"} ->
            hash_bool(v)
      [] name \in {"col_id", "output_name"} -> hash_id(v)
      [] name \in {"predicate", "column_name"} -> hash_expr(v)
      [] name \in {"by_column_ids", "column_ids"} -> hash_exprs(v)
      [] name = "data_schema" -> hash_strs(v)
      [] name = "scan_list" ->
            hash_tuple([i \in 1..Len(v.items) |->
                hash_tuple(<<hash_id(v.items[i].id), hash_str(v.items[i].dtype),
                             hash_str(v.items[i].source_id)>>)])
      [] name = "source" ->
            hash_tuple(<<hash_tuple(<<hash_str(v.table.table_id),
                                      hash_strs(v.table.physical_schema)>>),
                         hash_str(v.sql_predicate), hash_str(v.ordering)>>)
      [] name = "by" ->
            hash_tuple([i \in 1..Len(v) |->
                hash_tuple(<<hash_expr(v[i].scalar_expression), hash_bool(v[i].ascending)>>)])
      [] name = "conditions" ->
            hash_tuple([i \in 1..Len(v) |-> hash_tuple(<<hash_expr(v[i][1]), hash_expr(v[i][2])>>)])
      [] name \in {"input_output_pairs", "assignments", "aggregations"} ->
            hash_tuple([i \in 1..Len(v) |-> hash_tuple(<<hash_expr(v[i][1]), hash_id(v[i][2])>>)])
      [] name = "window_spec" -> hash_exprs(v.grouping_keys)
      [] OTHER -> 0

RECURSIVE cached_hash(_)
\* BigFrameNode._cached_hash: hash(self._as_tuple()); __hash__ returns it
cached_hash(self) ==
    LET t == as_tuple(self)
    IN hash_tuple([i \in 1..Len(t) |->
            IF t[i] \in NodeFields THEN cached_hash(self[t[i]])
            ELSE IF t[i] = "children"
                 THEN hash_tuple([j \in 1..Len(self.children) |-> cached_hash(self.children[j])])
                 ELSE attr_hash(t[i], self[t[i]])])

\* isinstance(other, self.__class__)
isinstance(other, cls) ==
    \/ other.kind = cls
    \/ cls = "ReadTableNode" /\ other.kind = "CachedTableNode"

RECURSIVE node_eq(_, _)
\* BigFrameNode.__eq__ on two separately constructed trees (`self is other` is
\* false at every position)
node_eq(self, other) ==
    IF ~isinstance(other, self.kind) THEN FALSE
    ELSE IF cached_hash(self) # cached_hash(other) THEN FALSE
    ELSE LET t == as_tuple(self)
             u == as_tuple(other)
         IN /\ Len(t) = Len(u)
            /\ \A i \in 1..Len(t) :
                 IF t[i] \in NodeFields THEN node_eq(self[t[i]], other[u[i]])
                 ELSE IF t[i] = "children"
                      THEN /\ Len(self.children) = Len(other.children)
                           /\ \A j \in 1..Len(self.children) :
                                node_eq(self.children[j], other.children[j])
                      ELSE self[t[i]] = other[u[i]]

(***************************************************************************)
(* Planning complexity: variables_introduced, relation_ops_created, joins  *)
(* of every class, their totals over the tree, planning_complexity.        *)
(***************************************************************************)
OVERHEAD_VARIABLES == 5

\* variables_introduced of every class
variables_introduced(self) ==
    CASE self.kind = "JoinNode" -> OVERHEAD_VARIABLES
      [] self.kind \in {"ConcatNode", "FromRangeNode"} ->
            Len(schema_names(self)) + OVERHEAD_VARIABLES
      [] self.kind \in LeafKinds -> Len(self.scan_list.items) + 1
      [] self.kind \in {"PromoteOffsetsNode", "FilterNode", "RowCountNode", "WindowOpNode",
                        "RandomSampleNode"} -> 1
      [] self.kind \in {"OrderByNode", "ReversedNode", "SelectionNode", "ReprojectOpNode"} -> 0
      [] self.kind = "ProjectionNode" ->
            \* ignore passthrough expressions
            Cardinality({i \in 1..Len(self.assignments) : ~is_identity(self.assignments[i][1])})
      [] self.kind = "AggregateNode" -> Len(self.aggregations) + Len(self.by_column_ids)
      [] self.kind = "ExplodeNode" -> Len(self.column_ids) + 1

\* BigFrameNode.relation_ops_created and its overrides
relation_ops_created(self) ==
    CASE self.kind \in {"ReadTableNode", "CachedTableNode"} -> 3
      [] self.kind = "PromoteOffsetsNode" -> 2
      [] self.kind \in {"OrderByNode", "ReversedNode", "ReprojectOpNode"} -> 0
      [] self.kind = "WindowOpNode" -> IF self.skip_reproject_unsafe THEN 0 ELSE 4
      [] self.kind = "ExplodeNode" -> 3
      [] OTHER -> 1

\* BigFrameNode.joins, overridden by JoinNode
joins(self) == self.kind = "JoinNode"

\* int(b)
int(b) == IF b THEN 1 ELSE 0

RECURSIVE sum(_)
\* sum(values)
sum(values) == IF values = <<>> THEN 0 ELSE Head(values) + sum(Tail(values))

\* A faulty total_variables that leaves out the variables of the children
total_variables_own_only(self) == variables_introduced(self)

RECURSIVE total_variables(_)
total_variables(self) ==
    LET cs == child_nodes(self)
    IN variables_introduced(self) + sum([i \in 1..Len(cs) |-> total_variables(cs[i])])

RECURSIVE total_relational_ops(_)
total_relational_ops(self) ==
    LET cs == child_nodes(self)
    IN relation_ops_created(self) + sum([i \in 1..Len(cs) |-> total_relational_ops(cs[i])])

RECURSIVE total_joins(_)
total_joins(self) ==
    LET cs == child_nodes(self)
    IN int(joins(self)) + sum([i \in 1..Len(cs) |-> total_joins(cs[i])])

\* A faulty planning_complexity that multiplies by the joins and not by one more
planning_complexity_times_joins(self) ==
    total_variables(self) * total_relational_ops(self) * total_joins(self)

planning_complexity(self) ==
    total_variables(self) * total_relational_ops(self) * (1 + total_joins(self))

(***************************************************************************)
(* The inputs the operations are tried with.                               *)
(***************************************************************************)
col_a == ColumnId("a")
col_b == ColumnId("b")
col_d == ColumnId("d")

\* A table with the physical columns x (INT64) and y (ARRAY<INT64>)
Source(table_id) ==
    [table |-> [table_id |-> table_id, physical_schema |-> <<"x", "y">>],
     sql_predicate |-> None, ordering |-> None]

\* Scan lists over the table: every sub-list of <<a from x, b from y>>
ScanLists ==
    {<<>>, <<ScanItem(col_a, INT_DTYPE, "x")>>, <<ScanItem(col_b, ARRAY_INT_DTYPE, "y")>>,
     <<ScanItem(col_a, INT_DTYPE, "x"), ScanItem(col_b, ARRAY_INT_DTYPE, "y")>>}

\* Scan lists that name a column the table does not have
BadScanLists ==
    {<<ScanItem(col_a, INT_DTYPE, "q")>>,
     <<ScanItem(col_a, INT_DTYPE, "x"), ScanItem(col_b, ARRAY_INT_DTYPE, "q")>>}

LocalLeaf(items, sess) == ReadLocalNode("f1", <<"x", "y">>, 2, ScanList(items), sess)

\* The subtrees a cached table may stand for
Originals == {LocalLeaf(<<ScanItem(col_a, INT_DTYPE, "x")>>, None),
              LocalLeaf(<<ScanItem(col_b, ARRAY_INT_DTYPE, "y")>>, None)}

\* The second operand of a binary operation: a table read of column d in
\* session S2, and a local read of column a without a session
Operands ==
    {ReadTableNode(Source("t2"), ScanList(<<ScanItem(col_d, INT_DTYPE, "x")>>), "S2"),
     LocalLeaf(<<ScanItem(col_a, INT_DTYPE, "x")>>, None)}

\* The end of a range: a table read, or a join of reads made in two sessions
RangeEnds ==
    {ReadTableNode(Source("t2"), ScanList(<<ScanItem(col_d, INT_DTYPE, "x")>>), "S2"),
     JoinNode(LocalLeaf(<<ScanItem(col_a, INT_DTYPE, "x")>>, "S1"),
              ReadTableNode(Source("t2"), ScanList(<<ScanItem(col_d, INT_DTYPE, "x")>>), "S2"),
              <<>>, "cross")}

JoinTypes == {"inner", "outer", "left", "right", "cross"}

\* Names handed out for new columns, in this order
NewNames == <<"v", "w">>

RECURSIVE all_ids(_)
\* Every column id some node of the tree outputs
all_ids(n) ==
    ids(n) \cup UNION {all_ids(child_nodes(n)[i]) : i \in 1..Len(child_nodes(n))}

HasFresh(n) == \E i \in 1..Len(NewNames) : ColumnId(NewNames[i]) \notin all_ids(n)
\* The next unused new column id
Fresh(n) ==
    ColumnId(NewNames[CHOOSE i \in 1..Len(NewNames) :
        /\ ColumnId(NewNames[i]) \notin all_ids(n)
        /\ \A j \in 1..(i - 1) : ColumnId(NewNames[j]) \in all_ids(n)])

(***************************************************************************)
(* The tree builder: each action constructs one node over the tree built   *)
(* so far, or applies one operation to it.                                  *)
(***************************************************************************)
Idle == [op |-> "idle"]

Init ==
    /\ tree = NoNode
    /\ res = [op |-> "init"]
    /\ jin = Idle
    /\ jout = Idle

\* The outcome of constructing node n: kept as the tree unless it raised
Construct(op, n, args) ==
    /\ res' = [op |-> op, raised |-> IF IsError(n) THEN n.exc ELSE None, args |-> args]
    /\ tree' = IF IsError(n) THEN tree ELSE n
    /\ UNCHANGED <<jin, jout>>

\* An operation applied to the tree returns (or raises) and leaves the tree as it
\* was, and a constructor that raises builds nothing: the run ends there, the
\* builder goes on from a successful construction only
Building ==
    /\ res.op \notin {"prune", "session", "planning_complexity", "eq"}
    /\ res.op # "init" => res.raised = None

CanWrap == Building /\ tree # NoNode /\ depth(tree) < MaxDepth

NewReadLocalNode ==
    /\ Building /\ tree = NoNode
    /\ \E items \in ScanLists, sess \in {None, "S1"} :
         Construct("ReadLocalNode", LocalLeaf(items, sess), <<items>>)

NewReadTableNode ==
    /\ Building /\ tree = NoNode
    /\ \E items \in ScanLists \cup BadScanLists, sess \in Sessions :
         Construct("ReadTableNode", ReadTableNode(Source("t1"), ScanList(items), sess),
                   <<items>>)

NewCachedTableNode ==
    /\ Building /\ tree = NoNode
    /\ \E items \in ScanLists \cup BadScanLists :
         Construct("CachedTableNode",
                   CachedTableNode(Source("t1"), ScanList(items), "S1",
                                   LocalLeaf(<<ScanItem(col_a, INT_DTYPE, "x")>>, None)),
                   <<items>>)

NewPromoteOffsetsNode ==
    /\ CanWrap /\ HasFresh(tree)
    /\ Construct("PromoteOffsetsNode", PromoteOffsetsNode(tree, Fresh(tree)), <<>>)

NewFilterNode ==
    /\ CanWrap
    /\ \E c \in ids(tree) :
         Construct("FilterNode", FilterNode(tree, OpExpression("isnull", <<c>>)), <<>>)

NewOrderByNode ==
    /\ CanWrap
    /\ \E c \in ids(tree) :
         Construct("OrderByNode", OrderByNode(tree, <<OrderingExpression(c, TRUE)>>), <<>>)

NewReversedNode ==
    /\ CanWrap
    /\ Construct("ReversedNode", ReversedNode(tree), <<>>)

\* Selections: one column kept, one column renamed, or every column kept
SelectionChoices(n) ==
    {<<<<DerefOp(c), c>>>> : c \in ids(n)}
    \cup (IF HasFresh(n) THEN {<<<<DerefOp(c), Fresh(n)>>>> : c \in ids(n)} ELSE {})
    \cup {[i \in 1..Len(fields(n)) |-> <<DerefOp(fields(n)[i].id), fields(n)[i].id>>]}

NewSelectionNode ==
    /\ CanWrap
    /\ \E pairs \in SelectionChoices(tree) :
         Construct("SelectionNode", SelectionNode(tree, pairs), <<>>)

\* Assignments: a computed or copied column under a new id, a computed column
\* under the id of its own input, or two new columns
AssignmentChoices(n) ==
    (IF HasFresh(n)
     THEN {<<<<OpExpression(op, <<c>>), Fresh(n)>>>> : op \in {"add1", "deref"}, c \in ids(n)}
     ELSE {})
    \cup {<<<<OpExpression("add1", <<c>>), c>>>> : c \in ids(n)}
    \cup (IF \A i \in 1..Len(NewNames) : ColumnId(NewNames[i]) \notin all_ids(n)
          THEN {<<<<OpExpression("add1", <<c>>), ColumnId(NewNames[1])>>,
                  <<OpExpression("deref", <<c>>), ColumnId(NewNames[2])>>>> : c \in ids(n)}
          ELSE {})

NewProjectionNode ==
    /\ CanWrap
    /\ \E assignments \in AssignmentChoices(tree) :
         Construct("ProjectionNode", ProjectionNode(tree, assignments),
                   <<tree, assignments>>)

NewRowCountNode ==
    /\ CanWrap
    /\ Construct("RowCountNode", RowCountNode(tree), <<>>)

\* Aggregations: one under the next new id, or two (of two columns) under the
\* two new ids
AggregationChoices(n, c) ==
    {<<<<Aggregation("count", c), Fresh(n)>>>>}
    \cup (IF \A i \in 1..Len(NewNames) : ColumnId(NewNames[i]) \notin all_ids(n)
          THEN {<<<<Aggregation("count", c), ColumnId(NewNames[1])>>,
                  <<Aggregation("count", k), ColumnId(NewNames[2])>>>> : k \in ids(n) \ {c}}
          ELSE {})

NewAggregateNode ==
    /\ CanWrap /\ HasFresh(tree)
    /\ \E c \in ids(tree) :
       \E aggregations \in AggregationChoices(tree, c) :
       \E by \in {<<>>} \cup (IF Len(aggregations) = 1
                              THEN {<<DerefOp(k)>> : k \in ids(tree) \ {c}} ELSE {}) :
         Construct("AggregateNode", AggregateNode(tree, aggregations, by, TRUE), <<>>)

NewWindowOpNode ==
    /\ CanWrap /\ HasFresh(tree)
    /\ \E c \in ids(tree) :
         Construct("WindowOpNode",
                   WindowOpNode(tree, DerefOp(c), "rank", [grouping_keys |-> <<>>],
                                Fresh(tree), FALSE, FALSE),
                   <<>>)

NewReprojectOpNode ==
    /\ CanWrap
    /\ Construct("ReprojectOpNode", ReprojectOpNode(tree), <<>>)

NewRandomSampleNode ==
    /\ CanWrap
    /\ Construct("RandomSampleNode", RandomSampleNode(tree, "0.5"), <<>>)

NewExplodeNode ==
    /\ CanWrap
    /\ \E c \in {x \in ids(tree) : get_type(tree, x) = ARRAY_INT_DTYPE} :
         Construct("ExplodeNode", ExplodeNode(tree, <<DerefOp(c)>>), <<>>)

\* Join conditions: none, or the pair of the first left and the first right column
ConditionChoices(left, right) ==
    {<<>>} \cup
    (IF Len(fields(left)) > 0 /\ Len(fields(right)) > 0
     THEN {<<<<DerefOp(fields(left)[1].id), DerefOp(fields(right)[1].id)>>>>}
     ELSE {})

NewJoinNode ==
    /\ CanWrap
    /\ \E right \in Operands, type \in JoinTypes :
         \E conditions \in ConditionChoices(tree, right) :
            Construct("JoinNode", JoinNode(tree, right, conditions, type),
                      <<tree, right, conditions, type>>)

NewConcatNode ==
    /\ CanWrap
    /\ \E children \in {<<>>, <<tree>>} \cup {<<tree, o>> : o \in Operands} :
         Construct("ConcatNode", ConcatNode(children), children)

NewFromRangeNode ==
    /\ CanWrap
    /\ Len(fields(tree)) = 1
    /\ \E end \in RangeEnds :
         Construct("FromRangeNode", FromRangeNode(tree, end, 1), <<>>)

\* tree.prune(used_cols)
Prune ==
    /\ Building /\ tree # NoNode
    /\ \E used_cols \in SUBSET all_ids(tree) :
         res' = [op |-> "prune", used_cols |-> used_cols, out |-> prune(tree, used_cols)]
    /\ UNCHANGED <<tree, jin, jout>>

\* tree.session
GetSession ==
    /\ Building /\ tree # NoNode
    /\ res' = [op |-> "session", out |-> session(tree)]
    /\ UNCHANGED <<tree, jin, jout>>

\* tree.planning_complexity
GetPlanningComplexity ==
    /\ Building /\ tree # NoNode
    /\ res' = [op |-> "planning_complexity", out |-> planning_complexity(tree)]
    /\ UNCHANGED <<tree, jin, jout>>

\* The values a declared attribute of a leaf may be changed to
AttributeValues(name, self) ==
    CASE name = "feather_bytes" -> {"f1", "f2"}
      [] name = "data_schema" -> {<<"x", "y">>, <<"x">>}
      [] name = "n_rows" -> {2, 3}
      [] name = "scan_list" ->
            {ScanList(<<>>), ScanList(<<ScanItem(col_a, INT_DTYPE, "x")>>)}
            \cup {ScanList([self.scan_list.items EXCEPT ![i].source_id =
                                IF @ = "x" THEN "y" ELSE "x"]) :
                  i \in {Len(self.scan_list.items)} \ {0}}
      [] name = "session" -> {None, "S1"}
      [] name = "table_session" -> Sessions
      [] name = "source" -> {Source("t1"), Source("t2")}
      [] name = "original_node" -> Originals
      [] OTHER -> {}

RECURSIVE LeafVariants(_)
\* The trees that differ from n in the value of one declared attribute of one leaf
LeafVariants(n) ==
    CASE n.kind \in LeafKinds ->
            UNION {{[n EXCEPT ![name] = v] : v \in AttributeValues(name, n) \ {n[name]}} :
                   name \in Range(declared_fields(n.kind))}
      [] n.kind \in UnaryKinds -> {[n EXCEPT !.child = c] : c \in LeafVariants(n.child)}
      [] n.kind = "JoinNode" ->
            {[n EXCEPT !.left_child = c] : c \in LeafVariants(n.left_child)}
            \cup {[n EXCEPT !.right_child = c] : c \in LeafVariants(n.right_child)}
      [] n.kind = "ConcatNode" ->
            UNION {{[n EXCEPT !.children[i] = c] : c \in LeafVariants(n.children[i])} :
                   i \in 1..Len(n.children)}
      [] n.kind = "FromRangeNode" ->
            {[n EXCEPT !.start = c] : c \in LeafVariants(n.start)}
            \cup {[n EXCEPT !.end = c] : c \in LeafVariants(n.end)}
      [] OTHER -> {}

\* tree == other and hash(tree), hash(other), for a separately constructed other:
\* a tree built the same way, or one that differs in one attribute of one leaf
Compare ==
    /\ Building /\ tree # NoNode
    /\ \E other \in {tree} \cup LeafVariants(tree) :
         res' = [op |-> "eq", other |-> other, out |-> node_eq(tree, other),
                 hash_self |-> cached_hash(tree), hash_other |-> cached_hash(other)]
    /\ UNCHANGED <<tree, jin, jout>>

Next ==
    \/ NewReadLocalNode
    \/ NewReadTableNode
    \/ NewCachedTableNode
    \/ NewPromoteOffsetsNode
    \/ NewFilterNode
    \/ NewOrderByNode
    \/ NewReversedNode
    \/ NewSelectionNode
    \/ NewProjectionNode
    \/ NewRowCountNode
    \/ NewAggregateNode
    \/ NewWindowOpNode
    \/ NewReprojectOpNode
    \/ NewRandomSampleNode
    \/ NewExplodeNode
    \/ NewJoinNode
    \/ NewConcatNode
    \/ NewFromRangeNode
    \/ Prune
    \/ GetSession
    \/ GetPlanningComplexity
    \/ Compare

Spec == Init /\ [][Next]_vars

(***************************************************************************)
(* Definitions the properties are stated with.                             *)
(***************************************************************************)
RECURSIVE subnodes(_)
\* The node and every node reachable from it through child_nodes
subnodes(n) ==
    LET cs == child_nodes(n)
    IN {n} \cup UNION {subnodes(cs[i]) : i \in 1..Len(cs)}

IsInjective(s) == \A i, j \in 1..Len(s) : s[i] = s[j] => i = j

ErrorTypes == {"TypeError", "KeyError", "AttributeError"}

\* The columns a node reads from its child, per child
reads(n) ==
    CASE n.kind = "FilterNode" -> <<column_references(n.predicate)>>
      [] n.kind = "OrderByNode" ->
            <<UNION {referenced_columns(n.by[i]) : i \in 1..Len(n.by)}>>
      [] n.kind = "SelectionNode" ->
            <<{DerefId(n.input_output_pairs[i][1]) : i \in 1..Len(n.input_output_pairs)}>>
      [] n.kind = "ProjectionNode" ->
            <<UNION {column_references(n.assignments[i][1]) : i \in 1..Len(n.assignments)}>>
      [] n.kind = "AggregateNode" ->
            <<{DerefId(n.by_column_ids[i]) : i \in 1..Len(n.by_column_ids)}
              \cup UNION {column_references(n.aggregations[i][1]) :
                          i \in 1..Len(n.aggregations)}>>
      [] n.kind = "WindowOpNode" -> <<{DerefId(n.column_name)}>>
      [] n.kind = "ExplodeNode" ->
            <<{DerefId(n.column_ids[i]) : i \in 1..Len(n.column_ids)}>>
      [] n.kind = "JoinNode" ->
            <<{DerefId(n.conditions[i][1]) : i \in 1..Len(n.conditions)},
              {DerefId(n.conditions[i][2]) : i \in 1..Len(n.conditions)}>>
      [] OTHER -> [i \in 1..Len(child_nodes(n)) |-> {}]

\* A node is well formed when it reads only columns its children output, its
\* output ids are distinct and its output dtypes resolve
NodeWellFormed(n) ==
    /\ ~IsError(n)
    /\ LET cs == child_nodes(n)
           r == reads(n)
       IN \A i \in 1..Len(cs) : r[i] \subseteq ids(cs[i])
    /\ LET f == fields(n)
       IN /\ IsInjective([i \in 1..Len(f) |-> f[i].id])
          /\ \A i \in 1..Len(f) : f[i].dtype \notin ErrorTypes
    /\ n.kind = "FromRangeNode" => Len(fields(n.start)) >= 1

WellFormed(n) == \A m \in subnodes(n) : NodeWellFormed(m)

(***************************************************************************)
(* Properties of the tree builder (specification Spec).                    *)
(***************************************************************************)

\* C1: pruning is idempotent: for every well-formed tree T and every set U of
\* column ids, prune(prune(T, U), U) is structurally equal to prune(T, U).
\* (The statement as claimed; WindowOpNode.prune breaks it.)
C1_PruneIdempotent ==
    (res.op = "prune" /\ WellFormed(tree))
        => /\ ~IsError(res.out)
           /\ prune(res.out, res.used_cols) = res.out

\* C2: pruning keeps what is used: for every well-formed tree T and every set U
\* of output column ids of T, every field of T whose id is in U is a field of
\* prune(T, U), with the same dtype.
C2_PruneKeepsUsedFields ==
    (res.op = "prune" /\ WellFormed(tree) /\ res.used_cols \subseteq ids(tree))
        => /\ ~IsError(res.out)
           /\ LET before == fields(tree)
                  after == fields(res.out)
              IN \A i \in 1..Len(before) :
                    before[i].id \in res.used_cols
                        => \E j \in 1..Len(after) : after[j] = before[i]

\* C2 witness: a projection pruned against some of its output columns lost a column.
C2_Witness ==
    /\ res.op = "prune" /\ WellFormed(tree) /\ res.used_cols \subseteq ids(tree)
    /\ tree.kind = "ProjectionNode"
    /\ res.used_cols # {}
    /\ Len(fields(res.out)) < Len(fields(tree))

\* C3: constructing a JoinNode whose children share an output column id raises,
\* for every join kind and condition list, and the tree is not replaced; no
\* JoinNode of a built tree or of a pruned tree has overlapping children.
C3_JoinIdsDisjoint ==
    /\ (res.op = "JoinNode" /\ (ids(res.args[1]) \cap ids(res.args[2])) # {})
          => (res.raised = "AssertionError" /\ tree = res.args[1])
    /\ \A n \in subnodes(tree) \cup (IF res.op = "prune" THEN subnodes(res.out) ELSE {}) :
          n.kind = "JoinNode" => (ids(n.left_child) \cap ids(n.right_child)) = {}

\* C3 witness: a cross join without conditions over children that share a column was rejected.
C3_Witness ==
    /\ res.op = "JoinNode"
    /\ (ids(res.args[1]) \cap ids(res.args[2])) # {}
    /\ res.args[3] = <<>> /\ res.args[4] = "cross"
    /\ res.raised = "AssertionError"

\* C4: constructing a ConcatNode raises when it has no children and when two
\* children differ in their sequence of dtypes; with at least one child and equal
\* dtype sequences it succeeds, whatever the column names.
C4_ConcatChecks ==
    res.op = "ConcatNode" =>
        LET children == res.args
            differ == \E i, j \in 1..Len(children) :
                        schema_dtypes(children[i]) # schema_dtypes(children[j])
        IN /\ Len(children) = 0 => res.raised = "ValueError"
           /\ differ => res.raised = "ValueError"
           /\ (Len(children) >= 1 /\ ~differ)
                => (res.raised = None /\ tree = [kind |-> "ConcatNode", children |-> children])

\* C4 witness: two children with the same dtypes and different column names were concatenated.
C4_Witness ==
    /\ res.op = "ConcatNode" /\ res.raised = None
    /\ Len(res.args) = 2
    /\ schema_dtypes(res.args[1]) = schema_dtypes(res.args[2])
    /\ schema_names(res.args[1]) # schema_names(res.args[2])
    /\ Len(fields(tree)) >= 1

\* C5: constructing a ProjectionNode with an assignment whose output column id is
\* already a column of the child raises.  (The statement as claimed; the
\* assertion compares ColumnId objects with str names and never fails.)
C5_ProjectionAppendOnly ==
    (res.op = "ProjectionNode"
     /\ \E i \in 1..Len(res.args[2]) : res.args[2][i][2] \in ids(res.args[1]))
        => res.raised # None

\* C6: constructing a ReadTableNode or CachedTableNode whose scan list names a
\* source column the physical schema lacks raises; every such node of a pruned
\* tree satisfies the check again.
C6_ScanListInSchema ==
    /\ (res.op \in {"ReadTableNode", "CachedTableNode"}
        /\ \E i \in 1..Len(res.args[1]) : res.args[1][i].source_id \notin {"x", "y"})
          => (res.raised = "ValueError" /\ tree = NoNode)
    /\ res.op = "prune" =>
          \A n \in subnodes(res.out) :
              n.kind \in {"ReadTableNode", "CachedTableNode"}
                  => /\ {n.scan_list.items[i].source_id : i \in 1..Len(n.scan_list.items)}
                            \subseteq Range(n.source.table.physical_schema)
                     /\ ReadTableNode_post_init(n.source, n.scan_list) = None

\* C6 witness: a CachedTableNode over a scan list with an unknown source column was rejected.
C6_Witness ==
    /\ res.op = "CachedTableNode"
    /\ \E i \in 1..Len(res.args[1]) : res.args[1][i].source_id = "q"
    /\ res.raised = "ValueError"

\* The other tree compared differs from the tree in original_node only
OnlyOriginalDiffers ==
    /\ res.op = "eq"
    /\ tree.kind = "CachedTableNode" /\ res.other.kind = "CachedTableNode"
    /\ tree.source = res.other.source
    /\ tree.scan_list = res.other.scan_list
    /\ tree.table_session = res.other.table_session
    /\ tree.original_node # res.other.original_node

\* C7: two separately constructed trees with the same class and equal declared
\* field values at every position are equal and have equal hashes; a tree that
\* differs in one declared attribute of one leaf is unequal.
C7_EqualityAndHash ==
    res.op = "eq" =>
        /\ res.other = tree => (res.out = TRUE /\ res.hash_self = res.hash_other)
        /\ res.other \in LeafVariants(tree) => res.out = FALSE

\* C7 witness: a join compared with a join that differs in one attribute of a
\* leaf of its right child was found unequal.
C7_Witness ==
    /\ res.op = "eq"
    /\ tree.kind = "JoinNode"
    /\ res.other \in LeafVariants(tree)
    /\ res.other.left_child = tree.left_child
    /\ res.out = FALSE

LeafSessions(n) ==
    {session(m) : m \in {l \in subnodes(n) : l.kind \in LeafKinds}} \ {None}

\* What session resolution is claimed to give
ExpectedSession(n) ==
    LET sessions == LeafSessions(n)
    IN IF Cardinality(sessions) > 1 THEN "ValueError"
       ELSE IF Cardinality(sessions) = 1 THEN CHOOSE x \in sessions : TRUE
       ELSE None

\* C9: a node over leaves of two distinct sessions is constructed without error,
\* and reading session on it and on each of its ancestors raises; with one
\* session S among the leaves the result is S, with none it is None.
C9_SessionResolution ==
    /\ res.op = "session" => res.out = ExpectedSession(tree)
    /\ \A n \in subnodes(tree) : session(n) = ExpectedSession(n)
    /\ (res.op \in {"JoinNode", "ConcatNode", "FromRangeNode"} /\ res.raised = None)
          => tree.kind = res.op

\* C9 witness: session raised on the parent of a join of reads from two sessions.
C9_Witness ==
    /\ res.op = "session" /\ res.out = "ValueError"
    /\ \E n \in Range(child_nodes(tree)) :
          n.kind = "JoinNode" /\ Cardinality(LeafSessions(n)) = 2

(***************************************************************************)
(* The join compiler (bigframes/core/compile/single_column.py).            *)
(* A compiled expression is a record: column_ids and their types, the      *)
(* hidden ordering column ids, the ordering, and the rows of the table.    *)
(* A value is NULL, an integer [int |-> n] or a string [str |-> s].        *)
(***************************************************************************)

MaxRows == 2

NULL == [null |-> TRUE]
IntValue(n) == [int |-> n]
StrValue(x) == [str |-> x]

NULL_SENTINEL == "$NULL_SENTINEL$"

\* ibis_types.literal(text)
literal(text) == StrValue(text)

Digits == <<"0", "1", "2", "3", "4", "5", "6", "7", "8", "9">>

\* value.cast(ibis_dtypes.str): the decimal text of an integer; NULL stays NULL
cast_str(value) ==
    IF value = NULL THEN NULL
    ELSE IF "int" \in DOMAIN value THEN StrValue(Digits[value.int + 1])
    ELSE value

\* value.fillna(replacement)
fillna(value, replacement) == IF value = NULL THEN replacement ELSE value

\* value.type().is_string()
is_string(type) == type = STRING_DTYPE

\* A faulty value_to_join_key that casts and does not replace NULL
value_to_join_key_nullable(value, type) ==
    IF ~is_string(type) THEN cast_str(value) ELSE value

\* value_to_join_key; value is one cell of the column, type the column's type
value_to_join_key(value, type) ==
    LET as_string == IF ~is_string(type) THEN cast_str(value) ELSE value
    IN fillna(as_string, literal(NULL_SENTINEL))

\* SQL equality of two cells: "TRUE", "FALSE", or "NULL" when either is NULL
sql_eq(x, y) ==
    IF x = NULL \/ y = NULL THEN "NULL" ELSE IF x = y THEN "TRUE" ELSE "FALSE"

\* ids.standard_identifiers(): col_0, col_1, ...; the i-th value drawn (from 0)
standard_identifiers == <<"col_0", "col_1", "col_2", "col_3", "col_4", "col_5">>

\* A faulty draw from a generator that starts over for every zip
next_identifiers_reset(drawn, n) == SubSeq(standard_identifiers, 1, n)

\* What zip(column_ids, id_generator) draws for n column ids from the generator
\* that has yielded `drawn` values: zip asks column_ids first, so no identifier
\* is drawn and lost when the column ids run out
next_identifiers(drawn, n) == SubSeq(standard_identifiers, drawn + 1, drawn + n)

\* guids.generate_guid("hidden_"): the i-th value drawn (from 1)
generate_guid == <<"hidden_1", "hidden_2", "hidden_3", "hidden_4">>

\* dict(zip(keys, values)) as a function; a repeated key keeps its last value
dict_zip(keys, values) ==
    [k \in Range(keys) |->
        values[CHOOSE i \in 1..Len(keys) :
                  keys[i] = k /\ \A j \in (i + 1)..Len(keys) : keys[j] # k]]

\* {**m1, **m2}
dict_merge(m1, m2) ==
    [k \in DOMAIN m1 \cup DOMAIN m2 |-> IF k \in DOMAIN m2 THEN m2[k] ELSE m1[k]]

\* _to_ibis_expr(expose_hidden_cols, col_id_overrides): the value columns, then
\* the hidden ones when exposed, renamed; a hidden column holds the row's offset
to_ibis_expr(ir, expose_hidden_cols, col_id_overrides) ==
    LET shown == IF expose_hidden_cols
                 THEN ir.column_ids \o ir.hidden_column_ids ELSE ir.column_ids
    IN [columns |-> [i \in 1..Len(shown) |->
                        IF shown[i] \in DOMAIN col_id_overrides
                        THEN col_id_overrides[shown[i]] ELSE shown[i]],
        types |-> [i \in 1..Len(shown) |->
                        IF i <= Len(ir.types) THEN ir.types[i] ELSE INT_DTYPE],
        rows |-> [r \in 1..Len(ir.rows) |->
                        [i \in 1..Len(shown) |->
                            IF i <= Len(ir.column_ids) THEN ir.rows[r][i] ELSE IntValue(r)]]]

\* The predicates of the join on a pair of rows: one cell of each side per
\* condition, made join keys and compared with ==
join_conditions(left_table, right_table, conditions, lrow, rrow) ==
    [c \in 1..Len(conditions) |->
        sql_eq(value_to_join_key(lrow[conditions[c][1] + 1],
                                 left_table.types[conditions[c][1] + 1]),
               value_to_join_key(rrow[conditions[c][2] + 1],
                                 right_table.types[conditions[c][2] + 1]))]

RECURSIVE FlattenSeq(_)
FlattenSeq(ss) == IF ss = <<>> THEN <<>> ELSE Head(ss) \o FlattenSeq(Tail(ss))

\* ibis.join(left_table, right_table, predicates, how), by the SQL meaning of the
\* join kinds: a pair of rows is joined when every predicate is "TRUE" on it; a
\* row without partner is kept with NULLs by the left, right and outer joins.
\* Each output row names the input rows it came from (0: none).
ibis_join(left_table, right_table, conditions, how) ==
    LET nl == Len(left_table.rows)
        nr == Len(right_table.rows)
        matched(i, j) ==
            \A c \in 1..Len(conditions) :
                join_conditions(left_table, right_table, conditions,
                                left_table.rows[i], right_table.rows[j])[c] = "TRUE"
        nulls(k) == [x \in 1..k |-> NULL]
        pairs == FlattenSeq([i \in 1..nl |->
                    SelectSeq([j \in 1..nr |->
                                  [left |-> i, right |-> j,
                                   values |-> left_table.rows[i] \o right_table.rows[j]]],
                              LAMBDA row : matched(row.left, row.right))])
        left_only == SelectSeq([i \in 1..nl |->
                                  [left |-> i, right |-> 0,
                                   values |-> left_table.rows[i]
                                              \o nulls(Len(right_table.columns))]],
                               LAMBDA row : \A j \in 1..nr : ~matched(row.left, j))
        right_only == SelectSeq([j \in 1..nr |->
                                  [left |-> 0, right |-> j,
                                   values |-> nulls(Len(left_table.columns))
                                              \o right_table.rows[j]]],
                                LAMBDA row : \A i \in 1..nl : ~matched(i, row.right))
    IN [columns |-> left_table.columns \o right_table.columns,
        types |-> left_table.types \o right_table.types,
        rows |-> pairs
                 \o (IF how \in {"left", "outer"} THEN left_only ELSE <<>>)
                 \o (IF how \in {"right", "outer"} THEN right_only ELSE <<>>)]

\* orderings.join_orderings: both orderings with their columns renamed, the
\* dominating side's first
join_orderings(left, right, left_id_mapping, right_id_mapping, left_order_dominates) ==
    LET left_ordering == [i \in 1..Len(left) |->
                             [left[i] EXCEPT !.column = left_id_mapping[@]]]
        right_ordering == [i \in 1..Len(right) |->
                             [right[i] EXCEPT !.column = right_id_mapping[@]]]
    IN IF left_order_dominates THEN left_ordering \o right_ordering
       ELSE right_ordering \o left_ordering

\* Faulty output columns: the right columns before the left ones
join_columns_right_first(left, right, l_mapping, r_mapping) ==
    [i \in 1..Len(right.column_ids) |-> r_mapping[right.column_ids[i]]]
    \o [i \in 1..Len(left.column_ids) |-> l_mapping[left.column_ids[i]]]

\* columns = [combined_table[l_mapping[col.get_name()]] for col in left.columns]
\*         + [combined_table[r_mapping[col.get_name()]] for col in right.columns],
\* each column of the result held by its name in combined_table
join_columns(left, right, l_mapping, r_mapping) ==
    [i \in 1..Len(left.column_ids) |-> l_mapping[left.column_ids[i]]]
    \o [i \in 1..Len(right.column_ids) |-> r_mapping[right.column_ids[i]]]

\* A faulty choice in which the left ordering always dominates
left_order_dominates_always(type) == TRUE

\* left_order_dominates=(type != "right")
left_order_dominates(type) == type # "right"

join_by_column_ordered(left, right, conditions, type) ==
    LET nleft == Len(left.column_ids)
        nright == Len(right.column_ids)
        \* Do not reset the generator
        l_value_mapping == dict_zip(left.column_ids, next_identifiers(0, nleft))
        r_value_mapping == dict_zip(right.column_ids, next_identifiers(nleft, nright))
        l_hidden_mapping == dict_zip(left.hidden_column_ids,
                                     SubSeq(generate_guid, 1, Len(left.hidden_column_ids)))
        r_hidden_mapping == dict_zip(right.hidden_column_ids,
                                     SubSeq(generate_guid, Len(left.hidden_column_ids) + 1,
                                            Len(left.hidden_column_ids)
                                            + Len(right.hidden_column_ids)))
        l_mapping == dict_merge(l_value_mapping, l_hidden_mapping)
        r_mapping == dict_merge(r_value_mapping, r_hidden_mapping)
        left_table == to_ibis_expr(left, TRUE, l_mapping)
        right_table == to_ibis_expr(right, TRUE, r_mapping)
        combined_table == ibis_join(left_table, right_table, conditions, type)
        ordering == join_orderings(left.ordering, right.ordering, l_mapping, r_mapping,
                                   left_order_dominates(type))
        columns == join_columns(left, right, l_mapping, r_mapping)
        hidden_ordering_columns ==
            [i \in 1..Len(left.hidden_column_ids) |-> l_hidden_mapping[left.hidden_column_ids[i]]]
            \o [i \in 1..Len(right.hidden_column_ids) |->
                    r_hidden_mapping[right.hidden_column_ids[i]]]
    IN [op |-> "join_by_column_ordered",
        table |-> combined_table,
        columns |-> columns,
        hidden_ordering_columns |-> hidden_ordering_columns,
        ordering |-> ordering]

join_by_column_unordered(left, right, conditions, type) ==
    LET nleft == Len(left.column_ids)
        nright == Len(right.column_ids)
        l_mapping == dict_zip(left.column_ids, next_identifiers(0, nleft))
        r_mapping == dict_zip(right.column_ids, next_identifiers(nleft, nright))
        left_table == to_ibis_expr(left, FALSE, l_mapping)
        right_table == to_ibis_expr(right, FALSE, r_mapping)
        combined_table == ibis_join(left_table, right_table, conditions, type)
        columns == join_columns(left, right, l_mapping, r_mapping)
    IN [op |-> "join_by_column_unordered",
        table |-> combined_table,
        columns |-> columns]

(***************************************************************************)
(* The calls of the join compiler: an input is drawn, one of the two entry *)
(* points is applied to it.                                                *)
(***************************************************************************)

LeftRows ==
    {<<IntValue(1), StrValue("k")>>, <<NULL, NULL>>, <<IntValue(2), StrValue(NULL_SENTINEL)>>}

RightRows ==
    {<<IntValue(1), StrValue("1")>>, <<NULL, NULL>>, <<NULL, StrValue("k")>>}

RowSeqs(rows) == UNION {[1..n -> rows] : n \in 0..MaxRows}

\* A compiled left side: ordered by a hidden offsets column
LeftIR(rows) ==
    [column_ids |-> <<"a", "b">>, types |-> <<INT_DTYPE, STRING_DTYPE>>,
     hidden_column_ids |-> <<"offsets">>,
     ordering |-> <<[column |-> "offsets", ascending |-> TRUE]>>,
     rows |-> rows]

\* A compiled right side: ordered by a value column, descending, then by a
\* hidden column
RightIR(rows) ==
    [column_ids |-> <<"c", "d">>, types |-> <<INT_DTYPE, STRING_DTYPE>>,
     hidden_column_ids |-> <<"row_id">>,
     ordering |-> <<[column |-> "c", ascending |-> FALSE],
                    [column |-> "row_id", ascending |-> TRUE]>>,
     rows |-> rows]

\* Conditions are pairs of column offsets (from 0) into the two sides
JoinConditions == {<<>>, <<<<0, 0>>>>, <<<<1, 1>>>>, <<<<0, 0>>, <<1, 1>>>>, <<<<0, 1>>>>}

\* The compiled side with its first n value columns only
Narrow(ir, n) ==
    [column_ids |-> SubSeq(ir.column_ids, 1, n), types |-> SubSeq(ir.types, 1, n),
     hidden_column_ids |-> ir.hidden_column_ids,
     ordering |-> SelectSeq(ir.ordering,
                            LAMBDA o : o.column \in Range(SubSeq(ir.column_ids, 1, n))
                                                   \cup Range(ir.hidden_column_ids)),
     rows |-> [r \in 1..Len(ir.rows) |-> SubSeq(ir.rows[r], 1, n)]]

\* The inputs: two sides of two columns under any conditions, or sides of
\* fewer columns (none included) joined without conditions
JoinInit ==
    /\ tree = NoNode
    /\ res = [op |-> "init"]
    /\ \E l \in RowSeqs(LeftRows), r \in RowSeqs(RightRows), t \in JoinTypes :
          \/ \E c \in IF t = "cross" THEN {<<>>} ELSE JoinConditions :
                jin = [op |-> "input", left |-> LeftIR(l), right |-> RightIR(r),
                       conditions |-> c, type |-> t]
          \/ \E nl \in 0..Len(LeftIR(l).column_ids), nr \in 0..Len(RightIR(r).column_ids) :
                jin = [op |-> "input", left |-> Narrow(LeftIR(l), nl),
                       right |-> Narrow(RightIR(r), nr), conditions |-> <<>>, type |-> t]
    /\ jout = Idle

JoinOrdered ==
    /\ jout = Idle
    /\ jout' = join_by_column_ordered(jin.left, jin.right, jin.conditions, jin.type)
    /\ UNCHANGED <<tree, res, jin>>

JoinUnordered ==
    /\ jout = Idle
    /\ jout' = join_by_column_unordered(jin.left, jin.right, jin.conditions, jin.type)
    /\ UNCHANGED <<tree, res, jin>>

JoinNext == JoinOrdered \/ JoinUnordered

JoinSpec == JoinInit /\ [][JoinNext]_vars

\* The cells a condition compares on a pair of input rows are both NULL
BothNull(i, j, cond) ==
    /\ jin.left.rows[i][cond[1] + 1] = NULL
    /\ jin.right.rows[j][cond[2] + 1] = NULL

\* The output has a row joined from left row i and right row j
Joined(i, j) ==
    \E k \in 1..Len(jout.table.rows) :
        /\ jout.table.rows[k].left = i
        /\ jout.table.rows[k].right = j

\* C10: null-safe join keys: a left row and a right row that have NULL in the
\* compared columns of every condition are joined, by join_by_column_ordered
\* and by join_by_column_unordered alike (NULL matches NULL).
C10_NullMatchesNull ==
    jout.op \in {"join_by_column_ordered", "join_by_column_unordered"} =>
        \A i \in 1..Len(jin.left.rows), j \in 1..Len(jin.right.rows) :
            (/\ Len(jin.conditions) >= 1
             /\ \A c \in 1..Len(jin.conditions) : BothNull(i, j, jin.conditions[c]))
                => Joined(i, j)

\* C10 witness: an ordered inner join on an integer and a string key joined two
\* rows whose keys are all NULL.
C10_Witness ==
    /\ jout.op = "join_by_column_ordered"
    /\ jin.type = "inner"
    /\ jin.conditions = <<<<0, 0>>, <<1, 1>>>>
    /\ \E i \in 1..Len(jin.left.rows), j \in 1..Len(jin.right.rows) :
          /\ BothNull(i, j, <<0, 0>>) /\ BothNull(i, j, <<1, 1>>)
          /\ Joined(i, j)

\* Exactly one of the cells a condition compares on a pair of input rows is NULL
OneNull(i, j, cond) ==
    (jin.left.rows[i][cond[1] + 1] = NULL) # (jin.right.rows[j][cond[2] + 1] = NULL)

\* C11: the null sentinel is distinct from every key value: a left row and a
\* right row of which one has NULL and the other a value in the columns some
\* condition compares are never joined, whatever the key type and the value.
\* (The statement as claimed; a string key spelling the sentinel breaks it.)
C11_NullNeverMatchesValue ==
    jout.op \in {"join_by_column_ordered", "join_by_column_unordered"} =>
        \A i \in 1..Len(jin.left.rows), j \in 1..Len(jin.right.rows) :
            (\E c \in 1..Len(jin.conditions) : OneNull(i, j, jin.conditions[c]))
                => ~Joined(i, j)

\* combined_table[name] on one row of the result: the cell of the column of that name
ColumnValue(row, name) ==
    row.values[CHOOSE p \in 1..Len(jout.table.columns) : jout.table.columns[p] = name]

\* C12: for both entry points and every join kind the visible columns of the
\* result are the left columns in their order, then the right columns in
\* theirs, |left| + |right| of them under distinct remapped names: on every row
\* of the result column c shows cell c of the left input row and column
\* |left| + c cell c of the right input row (NULL where the row has no partner);
\* key columns are not dropped, merged or coalesced.
C12_OutputColumns ==
    jout.op \in {"join_by_column_ordered", "join_by_column_unordered"} =>
        LET nl == Len(jin.left.column_ids)
            nr == Len(jin.right.column_ids)
        IN /\ Len(jout.columns) = nl + nr
           /\ IsInjective(jout.columns)
           /\ Range(jout.columns) \subseteq Range(jout.table.columns)
           /\ Range(jout.columns) \cap (Range(jin.left.column_ids) \cup Range(jin.right.column_ids)) = {}
           /\ \A k \in 1..Len(jout.table.rows) :
                LET row == jout.table.rows[k]
                IN /\ \A c \in 1..nl :
                        ColumnValue(row, jout.columns[c]) =
                            IF row.left = 0 THEN NULL ELSE jin.left.rows[row.left][c]
                   /\ \A c \in 1..nr :
                        ColumnValue(row, jout.columns[nl + c]) =
                            IF row.right = 0 THEN NULL ELSE jin.right.rows[row.right][c]

\* C12 witness: an outer join on the first columns gave a joined row and a row
\* of the right side alone, whose left key column is NULL next to the right key.
C12_Witness ==
    /\ jout.op = "join_by_column_unordered"
    /\ jin.type = "outer"
    /\ jin.conditions = <<<<0, 0>>>>
    /\ Len(jout.columns) = 4
    /\ \E k \in 1..Len(jout.table.rows) :
          jout.table.rows[k].left # 0 /\ jout.table.rows[k].right # 0
    /\ \E k \in 1..Len(jout.table.rows) :
          /\ jout.table.rows[k].left = 0
          /\ ColumnValue(jout.table.rows[k], jout.columns[1]) = NULL
          /\ ColumnValue(jout.table.rows[k], jout.columns[3]) # NULL

\* COALESCE(x, y)
coalesce(x, y) == IF x # NULL THEN x ELSE y

\* C13: as the docstrings of both entry points say, the resulting columns are,
\* in order, first the coalesced join keys (one per condition), then all the
\* left columns, and finally all the right columns.
\* (The statement as claimed; the code returns the left and right columns only.)
C13_CoalescedKeysFirst ==
    jout.op \in {"join_by_column_ordered", "join_by_column_unordered"} =>
        LET nl == Len(jin.left.column_ids)
            nr == Len(jin.right.column_ids)
            nk == Len(jin.conditions)
            cell(side, r, c) == IF r = 0 THEN NULL ELSE side.rows[r][c]
        IN /\ Len(jout.columns) = nk + nl + nr
           /\ \A k \in 1..Len(jout.table.rows) :
                LET row == jout.table.rows[k]
                IN /\ \A c \in 1..nk :
                        ColumnValue(row, jout.columns[c]) =
                            coalesce(cell(jin.left, row.left, jin.conditions[c][1] + 1),
                                     cell(jin.right, row.right, jin.conditions[c][2] + 1))
                   /\ \A c \in 1..nl :
                        ColumnValue(row, jout.columns[nk + c]) = cell(jin.left, row.left, c)
                   /\ \A c \in 1..nr :
                        ColumnValue(row, jout.columns[nk + nl + c]) = cell(jin.right, row.right, c)

(***************************************************************************)
(* Properties of JoinNode, ConcatNode and ProjectionNode (specification    *)
(* Spec).                                                                  *)
(***************************************************************************)

\* A JoinNode over two children that each have an output column was pruned
JoinPruned ==
    /\ res.op = "prune"
    /\ tree.kind = "JoinNode"
    /\ WellFormed(tree)
    /\ Len(fields(tree.left_child)) >= 1
    /\ Len(fields(tree.right_child)) >= 1

\* C14: after pruning a JoinNode of any kind, cross included, with any used
\* set, the empty one included, each of the two children of the resulting
\* JoinNode still has at least one output column.
\* (The statement as claimed; a join without conditions breaks it.)
C14_JoinPruneKeepsAColumnPerSide ==
    JoinPruned =>
        /\ res.out.kind = "JoinNode"
        /\ Len(fields(res.out.left_child)) >= 1
        /\ Len(fields(res.out.right_child)) >= 1

\* C15: after pruning a JoinNode with any used set U, every column a join
\* condition refers to is still an output column of its side (left keys of the
\* left child, right keys of the right child), also when U holds none of them.
C15_JoinPruneKeepsKeys ==
    (res.op = "prune" /\ tree.kind = "JoinNode" /\ WellFormed(tree)) =>
        /\ res.out.kind = "JoinNode"
        /\ res.out.conditions = tree.conditions
        /\ \A i \in 1..Len(tree.conditions) :
              /\ DerefId(tree.conditions[i][1]) \in ids(res.out.left_child)
              /\ DerefId(tree.conditions[i][2]) \in ids(res.out.right_child)
              /\ get_type(res.out.left_child, DerefId(tree.conditions[i][1]))
                    = get_type(tree.left_child, DerefId(tree.conditions[i][1]))
              /\ get_type(res.out.right_child, DerefId(tree.conditions[i][2]))
                    = get_type(tree.right_child, DerefId(tree.conditions[i][2]))

\* C15 witness: a left join on x = y was pruned with U = {x}; the left side lost
\* a column and the right side still outputs y.
C15_Witness ==
    /\ res.op = "prune" /\ tree.kind = "JoinNode" /\ WellFormed(tree)
    /\ tree.type = "left"
    /\ Len(tree.conditions) = 1
    /\ res.used_cols = {DerefId(tree.conditions[1][1])}
    /\ Len(fields(res.out.left_child)) < Len(fields(tree.left_child))
    /\ DerefId(tree.conditions[1][2]) \in ids(res.out.right_child)

\* C16: the output fields of a JoinNode are the left child's fields in order,
\* then the right child's fields in order, ids and dtypes unchanged, for every
\* join kind.
C16_JoinFields ==
    /\ (res.op = "JoinNode" /\ res.raised = None) =>
          LET left == res.args[1]
              right == res.args[2]
              nl == Len(fields(left))
          IN /\ tree.type = res.args[4]
             /\ Len(fields(tree)) = nl + Len(fields(right))
             /\ \A i \in 1..nl : fields(tree)[i] = fields(left)[i]
             /\ \A i \in 1..Len(fields(right)) : fields(tree)[nl + i] = fields(right)[i]
             /\ \A id \in ids(left) : get_type(tree, id) = get_type(left, id)
             /\ \A id \in ids(right) : get_type(tree, id) = get_type(right, id)
    /\ \A n \in subnodes(tree) :
          n.kind = "JoinNode" =>
              /\ id_seq(n) = id_seq(n.left_child) \o id_seq(n.right_child)
              /\ schema_dtypes(n) = schema_dtypes(n.left_child) \o schema_dtypes(n.right_child)

\* C16 witness: an outer join of a left child of two fields with another child
\* was built and has the fields of both.
C16_Witness ==
    /\ res.op = "JoinNode" /\ res.raised = None
    /\ tree.type = "outer"
    /\ Len(fields(res.args[1])) = 2
    /\ Len(fields(res.args[2])) = 1
    /\ fields(res.args[1])[2].dtype # fields(res.args[2])[1].dtype
    /\ Len(fields(tree)) = 3

(***************************************************************************)
(* The default ordering (bigframes/core/compile/default_ordering.py).      *)
(* A string is the sequence of its characters; a cell is NULL, an integer  *)
(* [int |-> n] or a string [text |-> <<characters>>].                      *)
(***************************************************************************)

MaxTextLen == 2

Backslash == "\\"

TextValue(chars) == [text |-> chars]

\* column.cast(ibis_dtypes.String(nullable=True)): the decimal text; NULL stays NULL
cast_text(value) ==
    IF value = NULL THEN NULL ELSE TextValue(<<Digits[value.int + 1]>>)

\* ibis_ops.ToJsonString(column): the JSON text of an array of integers; NULL stays NULL
to_json_string(value) ==
    IF value = NULL THEN NULL
    ELSE TextValue(<<"[">> \o [i \in 1..Len(value.array) |-> Digits[value.array[i] + 1]] \o <<"]">>)

\* result.fill_null("") / result.fillna("")
fill_null(value, replacement) == IF value = NULL THEN replacement ELSE value

RECURSIVE replace(_, _, _)
\* StringValue.replace(pattern, replacement) for a pattern of one character
replace(chars, pattern, replacement) ==
    IF chars = <<>> THEN <<>>
    ELSE (IF Head(chars) = pattern THEN replacement ELSE <<Head(chars)>>)
         \o replace(Tail(chars), pattern, replacement)

\* _convert_to_nonnull_string for one cell of a column of type col_type
convert_to_nonnull_string(value, col_type) ==
    LET result == IF col_type = INT_DTYPE THEN cast_text(value)
                  ELSE IF col_type = STRING_DTYPE THEN value
                  ELSE to_json_string(value)
        \* Escape backslashes and use backslash as delineator
        escaped == replace(fill_null(result, TextValue(<<>>)).text,
                           Backslash, <<Backslash, Backslash>>)
    IN <<Backslash>> \o escaped

\* StringValue.hash(), taken to be free of collisions: the text itself
text_hash(chars) == [hash |-> chars]

\* guid.generate_guid("bigframes_ordering_"): the i-th value drawn
ordering_guid == <<"bigframes_ordering_1", "bigframes_ordering_2", "bigframes_ordering_3">>

\* str_values[0].concat(*str_values[1:]) on one row
full_row_str(table, row) ==
    FlattenSeq([c \in 1..Len(table.columns) |->
                   convert_to_nonnull_string(row[c], table.types[c])])

\* gen_default_ordering; random_values[r] is what ibis.random() gives on row r.
\* The order values are returned with their names and, per row, their values.
gen_default_ordering(table, use_double_hash, random_values) ==
    LET ordering_hash_part == ordering_guid[1]
        ordering_hash_part2 == ordering_guid[2]
        ordering_rand_part == ordering_guid[3]
        full_row_hash(row) == text_hash(full_row_str(table, row))
        \* By modifying value slightly, we get another hash uncorrelated with the first
        full_row_hash_p2(row) == text_hash(full_row_str(table, row) \o <<"_">>)
    IN [op |-> "gen_default_ordering",
        order_values |-> IF use_double_hash
                         THEN <<ordering_hash_part, ordering_hash_part2, ordering_rand_part>>
                         ELSE <<ordering_hash_part, ordering_rand_part>>,
        rows |-> [r \in 1..Len(table.rows) |->
                    IF use_double_hash
                    THEN <<full_row_hash(table.rows[r]), full_row_hash_p2(table.rows[r]),
                           random_values[r]>>
                    ELSE <<full_row_hash(table.rows[r]), random_values[r]>>]]

(***************************************************************************)
(* The calls of gen_default_ordering: a table of two rows is drawn and     *)
(* ordered.                                                                *)
(***************************************************************************)

OrderingAlphabet == {"a", Backslash}

Texts == UNION {[1..n -> OrderingAlphabet] : n \in 0..MaxTextLen}

\* The cells a column of a type may hold
CellsOf(col_type) ==
    {NULL} \cup
    (IF col_type = STRING_DTYPE THEN {TextValue(t) : t \in Texts}
     ELSE IF col_type = INT_DTYPE THEN {IntValue(1), IntValue(2)}
     ELSE {[array |-> <<>>], [array |-> <<1>>]})

OrderingColumnTypes ==
    {<<STRING_DTYPE, STRING_DTYPE>>, <<INT_DTYPE, STRING_DTYPE>>,
     <<ARRAY_INT_DTYPE, STRING_DTYPE>>}

RowsOf(types) == {<<x, y>> : x \in CellsOf(types[1]), y \in CellsOf(types[2])}

\* What ibis.random() may give on a row
RandomValues == {0, 1}

OrderingInit ==
    /\ tree = NoNode
    /\ res = [op |-> "init"]
    /\ \E types \in OrderingColumnTypes, h \in BOOLEAN :
       \E r1 \in RowsOf(types), r2 \in RowsOf(types) :
          jin = [op |-> "table", columns |-> <<"x", "y">>, types |-> types,
                 rows |-> <<r1, r2>>, use_double_hash |-> h]
    /\ jout = Idle

GenDefaultOrdering ==
    /\ jout = Idle
    /\ \E random_values \in [1..Len(jin.rows) -> RandomValues] :
          jout' = gen_default_ordering(jin, jin.use_double_hash, random_values)
    /\ UNCHANGED <<tree, res, jin>>

OrderingNext == GenDefaultOrdering

OrderingSpec == OrderingInit /\ [][OrderingNext]_vars

\* C17: the default ordering's fingerprint tells rows of different content
\* apart: two rows of a table that differ in a column (NULL against the empty
\* string and values with backslashes included) get different fingerprint
\* strings, hence different primary hash keys.
\* (The statement as claimed; NULL against "" and a trailing backslash break it.)
C17_FingerprintDistinct ==
    jout.op = "gen_default_ordering" =>
        \A r1, r2 \in 1..Len(jin.rows) :
            jin.rows[r1] # jin.rows[r2]
                => /\ full_row_str(jin, jin.rows[r1]) # full_row_str(jin, jin.rows[r2])
                   /\ jout.rows[r1][1] # jout.rows[r2][1]

(***************************************************************************)
(* Planning complexity                                                     *)
(***************************************************************************)
RECURSIVE paths(_)
\* The paths of child positions that lead from a node to its descendants
paths(n) ==
    {<<>>} \cup UNION {{<<i>> \o p : p \in paths(child_nodes(n)[i])} :
                          i \in 1..Len(child_nodes(n))}

RECURSIVE node_at(_, _)
node_at(n, p) == IF p = <<>> THEN n ELSE node_at(child_nodes(n)[Head(p)], Tail(p))

RECURSIVE SumOf(_, _)
SumOf(f, S) ==
    IF S = {} THEN 0
    ELSE LET x == CHOOSE x \in S : TRUE IN f[x] + SumOf(f, S \ {x})

\* C18: planning_complexity of a node is the product of the variables
\* introduced, of the relational operations created and of one more than the
\* joins, each summed over the node and its descendants, once per path that
\* reaches them.
C18_PlanningComplexity ==
    res.op = "planning_complexity" =>
        LET P == paths(tree)
            variables == SumOf([p \in P |-> variables_introduced(node_at(tree, p))], P)
            relational_ops == SumOf([p \in P |-> relation_ops_created(node_at(tree, p))], P)
            join_count == SumOf([p \in P |-> IF joins(node_at(tree, p)) THEN 1 ELSE 0], P)
        IN  res.out = variables * relational_ops * (1 + join_count)

\* The complexity of a ConcatNode of twice the same subtree has been read
C18_Witness ==
    /\ res.op = "planning_complexity"
    /\ tree.kind = "ConcatNode"
    /\ Len(tree.children) = 2
    /\ tree.children[1] = tree.children[2]
    /\ res.out = 2 * total_variables(tree.children[1]) * 2 * total_relational_ops(tree.children[1])
                 + OVERHEAD_VARIABLES * (1 + 2 * total_relational_ops(tree.children[1]))
                 + Len(fields(tree)) * (1 + 2 * total_relational_ops(tree.children[1]))
                 + 2 * total_variables(tree.children[1])

(***************************************************************************)
(* Fields of ConcatNode and ProjectionNode                                 *)
(***************************************************************************)
PositionalNames == <<"column_0", "column_1", "column_2", "column_3">>

\* C19: a ConcatNode has as many fields as its first child; field i is named
\* column_i and has the dtype of the i-th field of the first child, whatever
\* the names of the children's columns are.
C19_ConcatFieldsPositional ==
    \A m \in subnodes(tree) :
        m.kind = "ConcatNode" =>
            LET first == fields(m.children[1])
                out == fields(m)
            IN  /\ Len(out) = Len(first)
                /\ \A i \in 1..Len(first) :
                      /\ out[i].id = ColumnId(PositionalNames[i])
                      /\ out[i].dtype = first[i].dtype

\* Two children whose columns are named differently, and not column_0, have
\* been concatenated
C19_Witness ==
    /\ res.op = "ConcatNode" /\ res.raised = None
    /\ Len(tree.children) = 2
    /\ schema_names(tree.children[1]) # schema_names(tree.children[2])
    /\ \A i \in 1..Len(fields(tree.children[1])) :
          fields(tree.children[1])[i].id.name \notin Range(PositionalNames)
    /\ Len(fields(tree)) >= 1

\* C20: the fields of a constructed ProjectionNode are the fields of its child,
\* unchanged and in order, followed by one field per assignment, in order, with
\* the id assigned to and the dtype of the expression over the child's fields.
C20_ProjectionFields ==
    (res.op = "ProjectionNode" /\ res.raised = None) =>
        LET child == res.args[1]
            assignments == res.args[2]
            nc == Len(fields(child))
        IN  /\ Len(fields(tree)) = nc + Len(assignments)
            /\ \A i \in 1..nc : fields(tree)[i] = fields(child)[i]
            /\ \A i \in 1..Len(assignments) :
                  /\ fields(tree)[nc + i].id = assignments[i][2]
                  /\ fields(tree)[nc + i].dtype =
                        output_type(assignments[i][1], dtype_lookup(child))

\* Two columns, one computed and one copied, have been assigned under new ids
C20_Witness ==
    /\ res.op = "ProjectionNode" /\ res.raised = None
    /\ Len(res.args[2]) = 2
    /\ Len(fields(tree)) = Len(fields(res.args[1])) + 2
    /\ fields(tree)[Len(fields(tree))].id \notin ids(res.args[1])

(***************************************************************************)
(* Construction of JoinNode without conditions                             *)
(***************************************************************************)
\* C21: a JoinNode has an empty condition list only when its kind is cross:
\* constructing one with no conditions and kind inner, outer, left or right is
\* rejected by JoinNode.__post_init__.
\* (The statement as claimed; __post_init__ looks at the ids only.)
C21_EmptyConditionsOnlyCross ==
    (res.op = "JoinNode" /\ res.args[3] = <<>> /\ res.args[4] # "cross")
        => (res.raised # None /\ tree = res.args[1])

(***************************************************************************)
(* Cached properties read from two threads.  functools.cached_property     *)
(* looks the attribute up in the instance's __dict__, calls the function   *)
(* when it is missing, stores what the function returned and returns it;   *)
(* the lookup and the store are single dict operations, and nothing is     *)
(* held between them, so every interleaving of these steps is a behavior.  *)
(* Here `tree` is the node instance both threads hold, an instance is      *)
(* named by its path from it, `res` holds the __dict__ entries of the      *)
(* instances, `jin` the call stack and result of each thread, `jout` the   *)
(* result of an access made after both have returned.                      *)
(***************************************************************************)
Threads == {1, 2}

CachedProperties ==
    {"_cached_hash", "fields", "schema", "total_variables", "total_relational_ops",
     "total_joins"}

\* cache.get(attrname, _NOT_FOUND): the sentinel, or the value stored
NOT_FOUND == [found |-> FALSE]
Found(val) == [found |-> TRUE, val |-> val]

\* schemata.ArraySchema(tuple(SchemaItem(i.id.name, i.dtype) for i in self.fields))
ArraySchema(node_fields) ==
    [items |-> [i \in 1..Len(node_fields) |->
                    [column |-> node_fields[i].id.name, dtype |-> node_fields[i].dtype]]]

\* The cached properties (of which instance) the function of a cached
\* property reads, in the order it reads them
reads_cached(self, path, name) ==
    CASE name = "schema" -> <<[path |-> path, name |-> "fields"]>>
      [] name = "fields" ->
            IF self.kind \in LeafKinds \cup {"RowCountNode"} THEN <<>>
            ELSE IF self.kind = "JoinNode"
                 THEN <<[path |-> path \o <<1>>, name |-> name],
                        [path |-> path \o <<2>>, name |-> name]>>
                 ELSE <<[path |-> path \o <<1>>, name |-> name]>>
      [] OTHER -> [i \in 1..Len(child_nodes(self)) |-> [path |-> path \o <<i>>, name |-> name]]

\* hash(self._as_tuple()), given the cached hashes of the child nodes
hash_as_tuple(self, child_hashes) ==
    LET t == as_tuple(self)
    IN hash_tuple([i \in 1..Len(t) |->
            CASE t[i] \in {"child", "left_child", "start"} -> child_hashes[1]
              [] t[i] \in {"right_child", "end"} -> child_hashes[2]
              [] t[i] = "children" -> hash_tuple(child_hashes)
              [] t[i] = "original_node" -> cached_hash(self.original_node)
              [] OTHER -> attr_hash(t[i], self[t[i]])])

\* The fields property of each class, given the cached fields of the child nodes
fields_of(self, child_fields) ==
    CASE self.kind = "ReadLocalNode" -> ReadLocalNode_fields(self)
      [] self.kind \in {"ReadTableNode", "CachedTableNode"} -> ReadTableNode_fields(self)
      [] self.kind = "PromoteOffsetsNode" -> PromoteOffsetsNode_fields(self, child_fields[1])
      [] self.kind = "SelectionNode" -> SelectionNode_fields(self, child_fields[1])
      [] self.kind = "ProjectionNode" -> ProjectionNode_fields(self, child_fields[1])
      [] self.kind = "RowCountNode" -> RowCountNode_fields(self)
      [] self.kind = "AggregateNode" -> AggregateNode_fields(self, child_fields[1])
      [] self.kind = "WindowOpNode" -> WindowOpNode_fields(self, child_fields[1])
      [] self.kind = "ExplodeNode" -> ExplodeNode_fields(self, child_fields[1])
      [] self.kind = "JoinNode" -> JoinNode_fields(child_fields[1], child_fields[2])
      [] self.kind = "ConcatNode" -> ConcatNode_fields(child_fields[1])
      [] self.kind = "FromRangeNode" -> FromRangeNode_fields(child_fields[1])
      [] OTHER -> child_fields[1]

\* self.func(instance): the function under the decorator, applied to the values
\* its reads of other cached properties returned
func(self, name, got) ==
    CASE name = "_cached_hash" -> hash_as_tuple(self, got)
      [] name = "fields" -> fields_of(self, got)
      [] name = "schema" -> ArraySchema(got[1])
      [] name = "total_variables" -> variables_introduced(self) + sum(got)
      [] name = "total_relational_ops" -> relation_ops_created(self) + sum(got)
      [] name = "total_joins" -> int(joins(self)) + sum(got)

\* A faulty store that drops the entry another thread has stored already
cache_set_or_drop(cache, key, val) ==
    IF cache[key].found THEN [cache EXCEPT ![key] = NOT_FOUND]
    ELSE [cache EXCEPT ![key] = Found(val)]

\* cache[self.attrname] = val
cache_set(cache, key, val) == [cache EXCEPT ![key] = Found(val)]

\* The node instances the two threads share
SharedTrees ==
    LET a == LocalLeaf(<<ScanItem(col_a, INT_DTYPE, "x")>>, None)
        d == ReadTableNode(Source("t2"), ScanList(<<ScanItem(col_d, INT_DTYPE, "x")>>), "S2")
        j == JoinNode(a, d, <<<<DerefOp(col_a), DerefOp(col_d)>>>>, "inner")
    IN  {a, d, j,
         FilterNode(a, OpExpression("isnull", <<col_a>>)),
         ProjectionNode(a, <<<<OpExpression("add1", <<col_a>>), ColumnId("v")>>>>),
         ConcatNode(<<a, d>>),
         RowCountNode(j),
         ReversedNode(ConcatNode(<<d, a>>))}

\* frame of a call of cached_property.__get__
Frame(path, name) == [path |-> path, name |-> name, at |-> "get", got |-> <<>>]

CacheInit ==
    /\ tree \in SharedTrees
    /\ \E name \in CachedProperties :
          /\ res = [op |-> "cached_property", name |-> name,
                    cache |-> [key \in paths(tree) \X CachedProperties |-> NOT_FOUND]]
          /\ jin = [t \in Threads |->
                       [stack |-> <<Frame(<<>>, name)>>, missed |-> FALSE, out |-> NOT_FOUND]]
    /\ jout = Idle

\* The call on top of a thread's stack returns val to its caller
Return(t, val) ==
    LET stack == jin[t].stack
        n == Len(stack)
    IN  IF n = 1 THEN [jin EXCEPT ![t].stack = <<>>, ![t].out = Found(val)]
        ELSE [jin EXCEPT ![t].stack =
                 [SubSeq(stack, 1, n - 1) EXCEPT ![n - 1].got = Append(@, val)]]

\* val = cache.get(self.attrname, _NOT_FOUND); a value found is returned
CacheGet(t) ==
    /\ res.op = "cached_property"
    /\ jin[t].stack # <<>>
    /\ LET n == Len(jin[t].stack)
           top == jin[t].stack[n]
           val == res.cache[<<top.path, top.name>>]
       IN  /\ top.at = "get"
           /\ jin' = IF val.found THEN Return(t, val.val)
                     ELSE [jin EXCEPT ![t].stack[n].at = "func",
                                      ![t].missed = @ \/ n = 1]
    /\ UNCHANGED <<tree, res, jout>>

\* val = self.func(instance): the function reads the cached properties it
\* needs, one after the other, and returns
CallFunc(t) ==
    /\ res.op = "cached_property"
    /\ jin[t].stack # <<>>
    /\ LET n == Len(jin[t].stack)
           top == jin[t].stack[n]
           self == node_at(tree, top.path)
           needed == reads_cached(self, top.path, top.name)
       IN  /\ top.at = "func"
           /\ jin' = IF Len(top.got) < Len(needed)
                     THEN LET next == needed[Len(top.got) + 1]
                          IN [jin EXCEPT ![t].stack = Append(@, Frame(next.path, next.name))]
                     ELSE [jin EXCEPT ![t].stack[n] =
                              [path |-> top.path, name |-> top.name, at |-> "set",
                               got |-> top.got, val |-> func(self, top.name, top.got)]]
    /\ UNCHANGED <<tree, res, jout>>

\* cache[self.attrname] = val; return val
CacheSet(t) ==
    /\ res.op = "cached_property"
    /\ jin[t].stack # <<>>
    /\ LET n == Len(jin[t].stack)
           top == jin[t].stack[n]
       IN  /\ top.at = "set"
           /\ res' = [res EXCEPT !.cache = cache_set(@, <<top.path, top.name>>, top.val)]
           /\ jin' = Return(t, top.val)
    /\ UNCHANGED <<tree, jout>>

\* An access of the property after both threads have returned: the lookup
LaterAccess ==
    /\ res.op = "cached_property"
    /\ jout = Idle
    /\ \A t \in Threads : jin[t].stack = <<>>
    /\ jout' = [op |-> "later", got |-> res.cache[<<<<>>, res.name>>]]
    /\ UNCHANGED <<tree, res, jin>>

CacheNext ==
    \/ \E t \in Threads : CacheGet(t)
    \/ \E t \in Threads : CallFunc(t)
    \/ \E t \in Threads : CacheSet(t)
    \/ LaterAccess

CacheSpec == CacheInit /\ [][CacheNext]_vars

\* What one thread alone gets from a cached property of a node
single_threaded(self, name) ==
    CASE name = "_cached_hash" -> cached_hash(self)
      [] name = "fields" -> fields(self)
      [] name = "schema" -> ArraySchema(fields(self))
      [] name = "total_variables" -> total_variables(self)
      [] name = "total_relational_ops" -> total_relational_ops(self)
      [] name = "total_joins" -> total_joins(self)

\* C22: when two threads read the same cached property of the same node for
\* the first time, under every interleaving each gets the value a single
\* thread gets, hence both the same, and a later access returns that value
\* from the cache.
C22_MemoizationRaceSafe ==
    res.op = "cached_property" =>
        /\ \A t \in Threads :
              jin[t].out.found => jin[t].out.val = single_threaded(tree, res.name)
        /\ jout # Idle => jout.got = Found(single_threaded(tree, res.name))

\* Both threads missed the cache of a JoinNode, both called the function and
\* stored, and a later access has been served
C22_Witness ==
    /\ res.op = "cached_property"
    /\ tree.kind = "JoinNode"
    /\ jout # Idle
    /\ \A t \in Threads : jin[t].missed /\ jin[t].out.found

(***************************************************************************)
(* Pruning of WindowOpNode and AggregateNode                               *)
(***************************************************************************)
\* C23: pruning a WindowOpNode whose output_name is not in the used set U
\* gives the child pruned against U; when output_name is in U the WindowOpNode
\* is kept, with its child pruned against U without output_name and with the
\* window's input column.
\* (The statement as claimed; the unused window's child is returned unpruned.)
C23_WindowOpPrune ==
    (res.op = "prune" /\ tree.kind = "WindowOpNode") =>
        IF tree.output_name \notin res.used_cols
        THEN res.out = prune(tree.child, res.used_cols)
        ELSE /\ res.out.kind = "WindowOpNode"
             /\ res.out.child =
                   prune(tree.child,
                         (res.used_cols \ {tree.output_name}) \cup {tree.column_name.args[1]})
             /\ \A name \in {"column_name", "op", "window_spec", "output_name",
                             "never_skip_nulls", "skip_reproject_unsafe"} :
                   res.out[name] = tree[name]


\* C26: pruning an AggregateNode with any used set U leaves by_column_ids and
\* dropna as they are, keeps the aggregations whose output id is in U, in
\* their order, and prunes the child against the ids of the group-by keys and
\* the columns the kept aggregations refer to, not against U.
C26_AggregatePrune ==
    (res.op = "prune" /\ tree.kind = "AggregateNode") =>
        LET kept == SelectSeq(tree.aggregations, LAMBDA a : a[2] \in res.used_cols)
            keys == {tree.by_column_ids[i].args[1] : i \in 1..Len(tree.by_column_ids)}
            inputs == UNION {Range(kept[i][1].args) : i \in 1..Len(kept)}
        IN  /\ res.out.kind = "AggregateNode"
            /\ res.out.by_column_ids = tree.by_column_ids
            /\ res.out.dropna = tree.dropna
            /\ res.out.aggregations = kept
            /\ res.out.child = prune(tree.child, keys \cup inputs)

\* Of two aggregations the second alone was kept, and a column of the child
\* that is in U but feeds no kept aggregation was pruned away
C26_Witness ==
    /\ res.op = "prune" /\ tree.kind = "AggregateNode"
    /\ Len(tree.aggregations) = 2
    /\ res.out.aggregations = <<tree.aggregations[2]>>
    /\ \E c \in res.used_cols : c \in ids(tree.child) /\ c \notin ids(res.out.child)

(***************************************************************************)
(* Names and orderings of the joined expression                            *)
(***************************************************************************)
\* C24: in both entry points the new names of the left side's visible columns
\* and those of the right side's come from one generator that is not reset in
\* between: the left names are its first |left| identifiers and the right
\* names the |right| next ones, so the two sets are disjoint and no name is
\* given twice within a side, for any numbers of columns, none included.
C24_FreshNamesDisjoint ==
    jout.op \in {"join_by_column_ordered", "join_by_column_unordered"} =>
        LET nl == Len(jin.left.column_ids)
            nr == Len(jin.right.column_ids)
            left_names == SubSeq(jout.columns, 1, nl)
            right_names == SubSeq(jout.columns, nl + 1, nl + nr)
        IN  /\ Len(jout.columns) = nl + nr
            /\ Range(left_names) \cap Range(right_names) = {}
            /\ IsInjective(left_names)
            /\ IsInjective(right_names)
            /\ \A i \in 1..nl : left_names[i] = standard_identifiers[i]
            /\ \A i \in 1..nr : right_names[i] = standard_identifiers[nl + i]

\* One left column was joined with two right columns by the ordered entry point
C24_Witness ==
    /\ jout.op = "join_by_column_ordered"
    /\ Len(jin.left.column_ids) = 1
    /\ Len(jin.right.column_ids) = 2
    /\ jout.columns = <<"col_0", "col_1", "col_2">>
    /\ Len(jout.table.rows) >= 1


\* The name under which a value or hidden column of a side appears in the
\* result of the ordered join
OutputName(side, column) ==
    LET ir == IF side = "left" THEN jin.left ELSE jin.right
        values_before == IF side = "left" THEN 0 ELSE Len(jin.left.column_ids)
        hidden_before == IF side = "left" THEN 0 ELSE Len(jin.left.hidden_column_ids)
    IN  IF column \in Range(ir.column_ids)
        THEN jout.columns[values_before
                          + CHOOSE p \in 1..Len(ir.column_ids) : ir.column_ids[p] = column]
        ELSE jout.hidden_ordering_columns[hidden_before
                + CHOOSE q \in 1..Len(ir.hidden_column_ids) : ir.hidden_column_ids[q] = column]

\* The ordering of a side, over the names of the result
OutputOrdering(side) ==
    LET ordering == IF side = "left" THEN jin.left.ordering ELSE jin.right.ordering
    IN  [i \in 1..Len(ordering) |->
            [column |-> OutputName(side, ordering[i].column),
             ascending |-> ordering[i].ascending]]

\* C25: the ordering of an ordered join is the left side's ordering followed
\* by the right side's for the kinds inner, outer, left and cross, and the
\* right side's followed by the left side's exactly for the kind right; the
\* hidden ordering columns of the result are all of the left side's, then all
\* of the right side's, under their new names.
C25_JoinOrderingPrecedence ==
    jout.op = "join_by_column_ordered" =>
        LET nlh == Len(jin.left.hidden_column_ids)
            nrh == Len(jin.right.hidden_column_ids)
        IN  /\ jout.ordering =
                  IF jin.type = "right"
                  THEN OutputOrdering("right") \o OutputOrdering("left")
                  ELSE OutputOrdering("left") \o OutputOrdering("right")
            /\ Len(jout.hidden_ordering_columns) = nlh + nrh
            /\ IsInjective(jout.hidden_ordering_columns)
            /\ Range(jout.hidden_ordering_columns) \cap Range(jout.columns) = {}
            /\ \A k \in 1..Len(jout.table.rows) :
                  LET row == jout.table.rows[k]
                  IN  /\ \A q \in 1..nlh :
                            ColumnValue(row, jout.hidden_ordering_columns[q]) =
                                IF row.left = 0 THEN NULL ELSE IntValue(row.left)
                      /\ \A q \in 1..nrh :
                            ColumnValue(row, jout.hidden_ordering_columns[nlh + q]) =
                                IF row.right = 0 THEN NULL ELSE IntValue(row.right)

\* A right join of two ordered sides: the ordering of the result starts with
\* the right side's key, under its new name, and ends with the left side's
\* hidden column
C25_Witness ==
    /\ jout.op = "join_by_column_ordered"
    /\ jin.type = "right"
    /\ Len(jin.right.column_ids) = 2 /\ Len(jin.left.column_ids) = 2
    /\ Len(jout.ordering) = 3
    /\ jout.ordering[1] = [column |-> "col_2", ascending |-> FALSE]
    /\ jout.ordering[3].column = jout.hidden_ordering_columns[1]
    /\ Len(jout.table.rows) >= 2

(***************************************************************************)
(* What pruning preserves                                                  *)
(***************************************************************************)
\* The construction checks of the node classes hold of a node
ConstructionChecks(n) ==
    /\ n.kind = "JoinNode" => ids(n.left_child) \cap ids(n.right_child) = {}
    /\ n.kind = "ProjectionNode" =>
          /\ \A i \in 1..Len(n.assignments) : n.assignments[i][2] \notin ids(n.child)
          /\ \A i \in 1..Len(n.assignments) :
                output_type(n.assignments[i][1], dtype_lookup(n.child)) \notin ErrorTypes
    /\ n.kind \in {"ReadTableNode", "CachedTableNode"} =>
          \A i \in 1..Len(n.scan_list.items) :
              n.scan_list.items[i].source_id \in Range(n.source.table.physical_schema)
    /\ n.kind = "ConcatNode" =>
          /\ Len(n.children) >= 1
          /\ \A i \in 1..Len(n.children) : schema_dtypes(n.children[i]) = schema_dtypes(n.children[1])

RECURSIVE IsSubsequence(_, _)
\* a is obtained from b by dropping elements
IsSubsequence(a, b) ==
    IF a = <<>> THEN TRUE
    ELSE IF b = <<>> THEN FALSE
    ELSE IF Head(a) = Head(b) THEN IsSubsequence(Tail(a), Tail(b))
    ELSE IsSubsequence(a, Tail(b))

\* C28: the output columns (id and dtype) of the result of pruning a
\* well-formed tree are a subsequence of the output columns of the tree, and
\* pruning a ConcatNode or a FromRangeNode returns the node itself.
C28_PruneKeepsColumnOrder ==
    (res.op = "prune" /\ WellFormed(tree)) =>
        /\ ~IsError(res.out)
        /\ IsSubsequence(fields(res.out), fields(tree))
        /\ tree.kind \in {"ConcatNode", "FromRangeNode"} => res.out = tree

\* Pruning dropped a column that is not the last one and kept two others
C28_Witness ==
    /\ res.op = "prune" /\ WellFormed(tree)
    /\ ~IsError(res.out)
    /\ Len(fields(res.out)) >= 2
    /\ Len(fields(tree)) > Len(fields(res.out))
    /\ fields(tree)[Len(fields(tree))] = fields(res.out)[Len(fields(res.out))]


(***************************************************************************)
(* Pruning and the planning complexity                                     *)
(***************************************************************************)
\* C29: the total variables, total relational operations, total joins and the
\* planning complexity of the result of pruning a well-formed tree are each
\* at most those of the tree.
C29_PruneNeverMoreComplex ==
    (res.op = "prune" /\ WellFormed(tree)) =>
        /\ ~IsError(res.out)
        /\ total_variables(res.out) <= total_variables(tree)
        /\ total_relational_ops(res.out) <= total_relational_ops(tree)
        /\ total_joins(res.out) <= total_joins(tree)
        /\ planning_complexity(res.out) <= planning_complexity(tree)


\* An offsets column nobody uses was pruned away together with a scanned
\* column: the result has fewer variables and fewer relational operations
C29_Witness ==
    /\ res.op = "prune" /\ WellFormed(tree)
    /\ tree.kind = "PromoteOffsetsNode"
    /\ tree.col_id \notin res.used_cols
    /\ ~IsError(res.out)
    /\ total_variables(res.out) + 2 <= total_variables(tree)
    /\ total_relational_ops(res.out) < total_relational_ops(tree)
    /\ planning_complexity(res.out) < planning_complexity(tree)


(***************************************************************************)
(* Node instances.  The heap is the sequence of the node objects created   *)
(* so far; an object is known by its address, its index in the heap, and   *)
(* holds its declared fields, the child fields as addresses.  A call        *)
(* returns the heap it leaves, the address of its result (0 if it raised)  *)
(* and what it raised.  jin holds the heap and the root T before the call, *)
(* jout the call and what it returned.                                     *)
(***************************************************************************)
\* The object with its child fields set to cs; no constructor runs
with_children(obj, cs) ==
    CASE obj.kind \in UnaryKinds -> [obj EXCEPT !.child = cs[1]]
      [] obj.kind = "ConcatNode" -> [obj EXCEPT !.children = cs]
      [] OTHER -> obj

RECURSIVE value_at(_, _)
\* The tree, by value, under the object at address a
value_at(heap, a) ==
    LET cs == child_nodes(heap[a])
    IN with_children(heap[a], [i \in 1..Len(cs) |-> value_at(heap, cs[i])])

RECURSIVE reachable(_, _)
\* The addresses of the nodes of the tree under the object at address a
reachable(heap, a) ==
    {a} \cup UNION {reachable(heap, c) : c \in Range(child_nodes(heap[a]))}

Returned(heap, out) == [heap |-> heap, out |-> out, raised |-> None]
Raised(heap, exc) == [heap |-> heap, out |-> 0, raised |-> exc]

\* cls(...): a new object at the next address
allocate(heap, obj) == Returned(Append(heap, obj), Len(heap) + 1)

RECURSIVE build(_, _, _)
\* The objects of the tree n, the children before their parent; done are the
\* addresses of the children built so far
build(heap, n, done) ==
    LET cs == child_nodes(n)
    IN IF Len(done) = Len(cs) THEN allocate(heap, with_children(n, done))
       ELSE LET c == build(heap, cs[Len(done) + 1], <<>>)
            IN build(c.heap, n, Append(done, c.out))

\* A faulty dataclasses.replace that assigns the fields of self
replace_in_place(heap, self, cs) ==
    Returned([heap EXCEPT ![self] = with_children(heap[self], cs)], self)

\* dataclasses.replace(self, child=...) or (self, children=...): the constructor
\* of the class of self runs on the fields of self with the children changed
replace_at(heap, self, cs) ==
    LET obj == with_children(heap[self], cs)
        exc == IF obj.kind = "ConcatNode"
               THEN ConcatNode_post_init([i \in 1..Len(cs) |-> value_at(heap, cs[i])])
               ELSE None
    IN IF exc # None THEN Raised(heap, exc) ELSE allocate(heap, obj)

\* The callables handed to transform_children
Identity == [f |-> "identity"]
Raising == [f |-> "raise"]
Pruning(used_cols) == [f |-> "prune", used_cols |-> used_cols]

RECURSIVE prune_at(_, _, _)
RECURSIVE apply_each(_, _, _, _)

\* t(x)
apply(heap, t, x) ==
    CASE t.f = "identity" -> Returned(heap, x)
      [] t.f = "raise" -> Raised(heap, "ValueError")
      [] t.f = "prune" -> prune_at(heap, x, t.used_cols)

\* tuple(t(child) for child in children); done are the results so far
apply_each(heap, t, children, done) ==
    IF Len(done) = Len(children) THEN Returned(heap, done)
    ELSE LET r == apply(heap, t, children[Len(done) + 1])
         IN IF r.raised # None THEN r
            ELSE apply_each(r.heap, t, children, Append(done, r.out))

\* self.transform_children(t) of UnaryNode, ConcatNode and LeafNode
transform_children_at(heap, self, t) ==
    IF child_nodes(heap[self]) = <<>> THEN Returned(heap, self)
    ELSE LET r == apply_each(heap, t, child_nodes(heap[self]), <<>>)
         IN IF r.raised # None THEN r ELSE replace_at(r.heap, self, r.out)

ReadLocalNode_prune_at(heap, self, used_cols) ==
    allocate(heap, ReadLocalNode_prune(heap[self], used_cols))

ConcatNode_prune_at(heap, self, used_cols) == Returned(heap, self)

PromoteOffsetsNode_prune_at(heap, self, used_cols) ==
    IF heap[self].col_id \notin used_cols
    THEN prune_at(heap, heap[self].child, used_cols)
    ELSE LET new_used == used_cols \ {heap[self].col_id}
         IN transform_children_at(heap, self, Pruning(new_used))

FilterNode_prune_at(heap, self, used_cols) ==
    LET consumed_ids == used_cols \cup column_references(heap[self].predicate)
        pruned_child == prune_at(heap, heap[self].child, consumed_ids)
    IN allocate(pruned_child.heap, FilterNode(pruned_child.out, heap[self].predicate))

WindowOpNode_prune_at(heap, self, used_cols) ==
    IF heap[self].output_name \notin used_cols
    THEN Returned(heap, heap[self].child)
    ELSE LET consumed_ids == (used_cols \ {heap[self].output_name})
                                 \cup {DerefId(heap[self].column_name)}
         IN transform_children_at(heap, self, Pruning(consumed_ids))

\* BigFrameNode.prune, which ReversedNode inherits
BigFrameNode_prune_at(heap, self, used_cols) ==
    transform_children_at(heap, self, Pruning(used_cols))

\* self.prune(used_cols), by the class of self
prune_at(heap, self, used_cols) ==
    CASE heap[self].kind = "ReadLocalNode" -> ReadLocalNode_prune_at(heap, self, used_cols)
      [] heap[self].kind = "ConcatNode" -> ConcatNode_prune_at(heap, self, used_cols)
      [] heap[self].kind = "PromoteOffsetsNode" -> PromoteOffsetsNode_prune_at(heap, self, used_cols)
      [] heap[self].kind = "FilterNode" -> FilterNode_prune_at(heap, self, used_cols)
      [] heap[self].kind = "WindowOpNode" -> WindowOpNode_prune_at(heap, self, used_cols)
      [] OTHER -> BigFrameNode_prune_at(heap, self, used_cols)

\* The classes of the nodes that are given an address
HeapKinds ==
    {"ReadLocalNode", "ConcatNode", "PromoteOffsetsNode", "FilterNode", "WindowOpNode",
     "ReversedNode"}

\* The nodes that wrap n
Wraps(n) ==
    {ReversedNode(n)}
    \cup {FilterNode(n, OpExpression("isnull", <<c>>)) : c \in ids(n)}
    \cup {PromoteOffsetsNode(n, Fresh(n)) : x \in {1}}
    \cup {WindowOpNode(n, DerefOp(c), "rank", [grouping_keys |-> <<>>], Fresh(n), FALSE, FALSE) :
             c \in ids(n)}

HeapLeaves == {LocalLeaf(items, None) : items \in ScanLists}

HeapInit ==
    /\ \E l \in HeapLeaves :
          \/ tree = l
          \/ tree \in Wraps(l)
          \/ \E m \in Wraps(l) : tree \in Wraps(m)
          \/ \E k \in HeapLeaves : tree = ConcatNode(<<l, k>>) /\ ~IsError(tree)
          \/ \E k \in HeapLeaves :
                tree = ReversedNode(ConcatNode(<<l, k>>)) /\ ~IsError(ConcatNode(<<l, k>>))
    /\ res = [op |-> "init"]
    /\ jin = [op |-> "heap", heap |-> build(<<>>, tree, <<>>).heap,
              root |-> build(<<>>, tree, <<>>).out]
    /\ jout = Idle

\* What the call left
Called(op, t, r) ==
    [op |-> op, t |-> t, heap |-> r.heap, out |-> r.out, raised |-> r.raised]

\* T.prune(used_cols)
HeapPrune ==
    /\ jout = Idle
    /\ \E used_cols \in SUBSET all_ids(tree) :
          jout' = Called("prune", Pruning(used_cols), prune_at(jin.heap, jin.root, used_cols))
    /\ UNCHANGED <<tree, res, jin>>

\* T.transform_children(t)
HeapTransformChildren ==
    /\ jout = Idle
    /\ \E t \in {Identity, Raising} \cup {Pruning(used_cols) : used_cols \in SUBSET all_ids(tree)} :
          jout' = Called("transform_children", t, transform_children_at(jin.heap, jin.root, t))
    /\ UNCHANGED <<tree, res, jin>>

HeapNext == HeapPrune \/ HeapTransformChildren

HeapSpec == HeapInit /\ [][HeapNext]_vars


(***************************************************************************)
(* Rewrites and the instances of their input                               *)
(***************************************************************************)
\* The addresses of the nodes of T
InstancesOfT == reachable(jin.heap, jin.root)

\* b is a node of the result that the call created
Created(b) == b > Len(jin.heap)

\* After the call every object that was there before it has the declared
\* field values and children it had, and the fields and hash computed from them
InputAsBefore ==
    /\ Len(jout.heap) >= Len(jin.heap)
    /\ \A a \in 1..Len(jin.heap) :
          /\ jout.heap[a] = jin.heap[a]
          /\ fields(value_at(jout.heap, a)) = fields(value_at(jin.heap, a))
          /\ cached_hash(value_at(jout.heap, a)) = cached_hash(value_at(jin.heap, a))
    /\ value_at(jout.heap, jin.root) = tree

ReturnedAsIs(a, used_cols) ==
    \/ jin.heap[a].kind = "ConcatNode"
    \/ \E w \in InstancesOfT :
          /\ jin.heap[w].kind = "WindowOpNode"
          /\ jin.heap[w].child = a
          /\ jin.heap[w].output_name \notin used_cols

====
